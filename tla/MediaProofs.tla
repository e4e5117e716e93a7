----------------------------- MODULE MediaProofs -----------------------------
(***************************************************************************)
(* Proofs about what is recorded, for every input.  First the encodings:   *)
(* EBML sizes and the colour conversion.  Then MatroskaWriter: FileInv, by *)
(* which only the Duration is ever rewritten; the reference reader, which  *)
(* reads any beginning of a recording as its first events; the content of  *)
(* the file and of the buffer, by which the writer implements              *)
(* RecordingContract; and the pictures, which a decoder finds again.       *)
(*                                                                         *)
(* Induction is by least counterexample (LeastNumber): the library's       *)
(* induction theorems take an operator, well-founded sets do not.          *)
(***************************************************************************)
EXTENDS MatroskaWriter, ColorConversion, SequenceTheorems, NaturalsInduction,
        WellFoundedInduction, TLAPS

(* The largest size that is encoded, MaxWidth bytes long. *)
LargestSize == 268435454

(* The number w bytes stand for. *)
ValueOf(bytes, w) ==
  CASE w = 1 -> bytes[1]
    [] w = 2 -> 256 * bytes[1] + bytes[2]
    [] w = 3 -> 65536 * bytes[1] + 256 * bytes[2] + bytes[3]
    [] w = 4 -> 16777216 * bytes[1] + 65536 * bytes[2] + 256 * bytes[3]
                + bytes[4]

(* First bytes that announce a size of w bytes. *)
Announces == << 128 .. 255, 64 .. 127, 32 .. 63, 16 .. 31 >>

(* A reader of the bytes finds their number, the size back from it, and not *)
(* the reserved number that means an unknown size; fewer bytes would not do. *)
ReadsInWidth(bytes, w, size) ==
  /\ bytes \in [1 .. w -> 0 .. 255]
  /\ bytes[1] \in Announces[w]
  /\ ValueOf(bytes, w) - SizeLimit[w] = size
  /\ size # SizeLimit[w] - 1
  /\ w > 1 => size >= SizeLimit[w - 1] - 1

ReadsAs(bytes, size) == \E w \in 1 .. MaxWidth : ReadsInWidth(bytes, w, size)

-----------------------------------------------------------------------------
LEMMA Limits == /\ SizeLimit[1] = 128 /\ SizeLimit[2] = 16384
                /\ SizeLimit[3] = 2097152 /\ SizeLimit[4] = 268435456
BY SMT DEF SizeLimit

LEMMA Powers == /\ Power256[1] = 1 /\ Power256[2] = 256
                /\ Power256[3] = 65536 /\ Power256[4] = 16777216
BY SMT DEF Power256

LEMMA Announced == /\ Announces[1] = 128 .. 255 /\ Announces[2] = 64 .. 127
                   /\ Announces[3] = 32 .. 63 /\ Announces[4] = 16 .. 31
BY SMT DEF Announces

(* size_width finds the least width whose reserved number is not reached. *)
LEMMA SizeWidthIs ==
  ASSUME NEW size \in Nat, size <= LargestSize
  PROVE  /\ SizeWidth(size) \in 1 .. MaxWidth
         /\ size < SizeLimit[SizeWidth(size)] - 1
         /\ \A v \in 1 .. SizeWidth(size) - 1 : size >= SizeLimit[v] - 1
<1> DEFINE Fits(w) == /\ size < SizeLimit[w] - 1
                      /\ \A v \in 1 .. w - 1 : size >= SizeLimit[v] - 1
<1>1. size <= 268435454 BY SMT DEF LargestSize
<1>2. ASSUME size < 127 PROVE \E w \in 1 .. MaxWidth : Fits(w)
  <2>1. Fits(1) BY SMT, <1>1, <1>2, Limits
  <2>2. QED BY SMT, <2>1 DEF MaxWidth
<1>3. ASSUME ~ (size < 127), size < 16383
      PROVE  \E w \in 1 .. MaxWidth : Fits(w)
  <2>1. Fits(2) BY SMT, <1>3, Limits
  <2>2. QED BY SMT, <2>1 DEF MaxWidth
<1>4. ASSUME ~ (size < 16383), size < 2097151
      PROVE  \E w \in 1 .. MaxWidth : Fits(w)
  <2>1. size >= SizeLimit[1] - 1 BY SMT, <1>4, Limits
  <2>2. size >= SizeLimit[2] - 1 BY SMT, <1>4, Limits
  <2>3. size < SizeLimit[3] - 1 BY SMT, <1>4, Limits
  <2>4. Fits(3) BY SMT, <2>1, <2>2, <2>3
  <2>5. QED BY SMT, <2>4 DEF MaxWidth
<1>5. ASSUME ~ (size < 2097151)
      PROVE  \E w \in 1 .. MaxWidth : Fits(w)
  <2>1. size >= SizeLimit[1] - 1 BY SMT, <1>5, Limits
  <2>2. size >= SizeLimit[2] - 1 BY SMT, <1>5, Limits
  <2>3. size >= SizeLimit[3] - 1 BY SMT, <1>5, Limits
  <2>4. size < SizeLimit[4] - 1 BY SMT, <1>1, Limits
  <2>5. Fits(4) BY SMT, <2>1, <2>2, <2>3, <2>4
  <2>6. QED BY SMT, <2>5 DEF MaxWidth
<1>6. SizeWidth(size) = CHOOSE w \in 1 .. MaxWidth : Fits(w)
  BY Zenon DEF SizeWidth
<1> HIDE DEF Fits
<1>7. \E w \in 1 .. MaxWidth : Fits(w)
  BY SMT, <1>2, <1>3, <1>4, <1>5
<1>8. SizeWidth(size) \in 1 .. MaxWidth /\ Fits(SizeWidth(size))
  BY Zenon, <1>6, <1>7
<1>9. QED BY Zenon, <1>8 DEF Fits

(* The bytes of an encoded size, least significant last, give it back. *)
LEMMA TwoBytes ==
  ASSUME NEW e \in Nat, 16384 <= e, e < 32767
  PROVE  /\ (e \div 256) % 256 \in 64 .. 127
         /\ 256 * ((e \div 256) % 256) + (e % 256) = e
BY SMT

LEMMA ThreeBytes ==
  ASSUME NEW e \in Nat, 2097152 <= e, e < 4194303
  PROVE  /\ (e \div 65536) % 256 \in 32 .. 63
         /\ 65536 * ((e \div 65536) % 256) + 256 * ((e \div 256) % 256)
              + (e % 256) = e
BY SMT

LEMMA FourBytes ==
  ASSUME NEW e \in Nat, 268435456 <= e, e < 536870911
  PROVE  /\ (e \div 16777216) % 256 \in 16 .. 31
         /\ 16777216 * ((e \div 16777216) % 256)
              + 65536 * ((e \div 65536) % 256) + 256 * ((e \div 256) % 256)
              + (e % 256) = e
BY SMT

(* write_size: every size the writer encodes reads back as itself, in the    *)
(* fewest bytes, and never as the reserved "unknown" size.                   *)
THEOREM SizeRoundTrip ==
  \A size \in Nat : size <= LargestSize => ReadsAs(WriteSize(size), size)
<1> SUFFICES ASSUME NEW size \in Nat, size <= LargestSize
             PROVE  ReadsAs(WriteSize(size), size)
  OBVIOUS
<1> DEFINE w == SizeWidth(size)
           bytes == WriteSize(size)
<1>1. /\ w \in 1 .. 4 /\ size \in Nat /\ size < SizeLimit[w] - 1
      /\ w > 1 => size >= SizeLimit[w - 1] - 1
  BY SMT, SizeWidthIs DEF MaxWidth
<1>2. bytes = [i \in 1 .. w |->
                 ((size + SizeLimit[w]) \div Power256[w - i + 1]) % 256]
  BY Zenon DEF WriteSize, BigEndian
<1> HIDE DEF w, bytes
<1>3. CASE w = 1
  <2>1. size < 127 BY SMT, <1>1, <1>3, Limits
  <2>2. bytes = [i \in 1 .. 1 |-> size + 128]
    BY SMT, <1>1, <1>2, <1>3, <2>1, Limits, Powers
  <2>3. ReadsInWidth(bytes, 1, size)
    BY SMT, <1>1, <2>1, <2>2, Limits, Announced DEF ReadsInWidth, ValueOf
  <2>4. QED BY SMT, <2>3 DEF ReadsAs, MaxWidth, bytes
<1>4. CASE w = 2
  <2> DEFINE e == size + 16384
  <2>1. size < 16383 /\ size >= 127 BY SMT, <1>1, <1>4, Limits
  <2>2. /\ bytes \in [1 .. 2 -> 0 .. 255]
        /\ bytes[1] = (e \div 256) % 256
        /\ bytes[2] = e % 256
    BY SMT, <1>1, <1>2, <1>4, <2>1, Limits, Powers
  <2>3. bytes[1] \in 64 .. 127 /\ 256 * bytes[1] + bytes[2] = e
    BY SMT, <1>1, <2>1, <2>2, TwoBytes
  <2>4. ValueOf(bytes, 2) = 256 * bytes[1] + bytes[2]
    BY SMT DEF ValueOf
  <2>5. bytes[1] \in Announces[2] /\ size # SizeLimit[2] - 1
        /\ size >= SizeLimit[1] - 1 /\ ValueOf(bytes, 2) - SizeLimit[2] = size
    BY SMT, <2>1, <2>3, <2>4, Limits, Announced
  <2>6. ReadsInWidth(bytes, 2, size)
    BY SMT, <2>2, <2>5 DEF ReadsInWidth
  <2>7. QED BY SMT, <2>6 DEF ReadsAs, MaxWidth, bytes
<1>5. CASE w = 3
  <2> DEFINE e == size + 2097152
  <2>1. size < 2097151 /\ size >= 16383 BY SMT, <1>1, <1>5, Limits
  <2>2. /\ bytes \in [1 .. 3 -> 0 .. 255]
        /\ bytes[1] = (e \div 65536) % 256
        /\ bytes[2] = (e \div 256) % 256
        /\ bytes[3] = e % 256
    BY SMT, <1>1, <1>2, <1>5, <2>1, Limits, Powers
  <2>3. /\ bytes[1] \in 32 .. 63
        /\ 65536 * bytes[1] + 256 * bytes[2] + bytes[3] = e
    BY SMT, <1>1, <2>1, <2>2, ThreeBytes
  <2>4. ValueOf(bytes, 3) = 65536 * bytes[1] + 256 * bytes[2] + bytes[3]
    BY SMT DEF ValueOf
  <2>5. bytes[1] \in Announces[3] /\ size # SizeLimit[3] - 1
        /\ size >= SizeLimit[2] - 1 /\ ValueOf(bytes, 3) - SizeLimit[3] = size
    BY SMT, <2>1, <2>3, <2>4, Limits, Announced
  <2>6. ReadsInWidth(bytes, 3, size)
    BY SMT, <2>2, <2>5 DEF ReadsInWidth
  <2>7. QED BY SMT, <2>6 DEF ReadsAs, MaxWidth, bytes
<1>6. CASE w = 4
  <2> DEFINE e == size + 268435456
  <2>1. size < 268435455 /\ size >= 2097151 BY SMT, <1>1, <1>6, Limits
  <2>a. e \in Nat /\ 268435456 <= e /\ e < 536870911 BY SMT, <2>1
  <2>b. bytes = [i \in 1 .. 4 |-> (e \div Power256[5 - i]) % 256]
    <3>1. size + SizeLimit[w] = e BY SMT, <1>6, Limits
    <3> HIDE DEF e
    <3>2. \A i \in 1 .. 4 : w - i + 1 = 5 - i BY SMT, <1>6
    <3>3. QED BY SMT, <1>2, <1>6, <3>1, <3>2
  <2>2. /\ bytes \in [1 .. 4 -> 0 .. 255]
        /\ bytes[1] = (e \div 16777216) % 256
        /\ bytes[2] = (e \div 65536) % 256
        /\ bytes[3] = (e \div 256) % 256
        /\ bytes[4] = e % 256
    <3> HIDE DEF e
    <3>1. bytes[1] = (e \div 16777216) % 256 BY SMT, <2>a, <2>b, Powers
    <3>2. bytes[2] = (e \div 65536) % 256 BY SMT, <2>a, <2>b, Powers
    <3>3. bytes[3] = (e \div 256) % 256 BY SMT, <2>a, <2>b, Powers
    <3>4. bytes[4] = e % 256 BY SMT, <2>a, <2>b, Powers
    <3>5. \A i \in 1 .. 4 : bytes[i] \in 0 .. 255
      BY SMT, <2>a, <3>1, <3>2, <3>3, <3>4
    <3>6. bytes = [i \in 1 .. 4 |-> bytes[i]] BY <2>b, Zenon
    <3>7. bytes \in [1 .. 4 -> 0 .. 255] BY <3>5, <3>6, Zenon
    <3> QED BY SMT, <3>1, <3>2, <3>3, <3>4, <3>7
  <2>3. /\ bytes[1] \in 16 .. 31
        /\ 16777216 * bytes[1] + 65536 * bytes[2] + 256 * bytes[3] + bytes[4]
             = e
    <3> HIDE DEF e
    <3>1. QED BY SMT, <2>a, <2>2, FourBytes
  <2>4. ValueOf(bytes, 4) = 16777216 * bytes[1] + 65536 * bytes[2]
                              + 256 * bytes[3] + bytes[4]
    BY SMT DEF ValueOf
  <2>5. bytes[1] \in Announces[4] /\ size # SizeLimit[4] - 1
        /\ size >= SizeLimit[3] - 1 /\ ValueOf(bytes, 4) - SizeLimit[4] = size
    BY SMT, <2>1, <2>3, <2>4, Limits, Announced
  <2>6. ReadsInWidth(bytes, 4, size)
    BY SMT, <2>2, <2>5 DEF ReadsInWidth
  <2>7. QED BY SMT, <2>6 DEF ReadsAs, MaxWidth, bytes
<1>7. QED BY SMT, <1>1, <1>3, <1>4, <1>5, <1>6

-----------------------------------------------------------------------------
(* Limited range, as jpeg_to_yuyv promises. *)
LimitedRange(yuyv) == /\ yuyv[1] \in 16 .. 235 /\ yuyv[3] \in 16 .. 235
                      /\ yuyv[2] \in 16 .. 240 /\ yuyv[4] \in 16 .. 240

LEMMA PixelRange ==
  ASSUME NEW r \in Byte, NEW g \in Byte, NEW b \in Byte
  PROVE  /\ LumaOf(r, g, b) \in 16 .. 235
         /\ BlueOf(r, g, b) \in 16 .. 240
         /\ RedOf(r, g, b) \in 16 .. 240
<1>1. LumaOf(r, g, b) \in 16 .. 235 BY SMT DEF LumaOf, Byte
<1>2. BlueOf(r, g, b) \in 16 .. 240 BY SMT DEF BlueOf, Byte
<1>3. RedOf(r, g, b) \in 16 .. 240 BY SMT DEF RedOf, Byte
<1>4. QED BY SMT, <1>1, <1>2, <1>3

(* rgb_to_yuv: for all 2^24 colours the clamp changes nothing, so no value  *)
(* is cut off.                                                              *)
THEOREM ClampIsIdle ==
  \A r, g, b \in Byte : RgbToYuv(r, g, b)
                          = << LumaOf(r, g, b), BlueOf(r, g, b), RedOf(r, g, b) >>
<1> SUFFICES ASSUME NEW r \in Byte, NEW g \in Byte, NEW b \in Byte
             PROVE  RgbToYuv(r, g, b)
                      = << LumaOf(r, g, b), BlueOf(r, g, b), RedOf(r, g, b) >>
  BY SMT
<1>1. \A x \in 16 .. 240 : Clamp(x) = x BY SMT DEF Clamp
<1>2. /\ Clamp(LumaOf(r, g, b)) = LumaOf(r, g, b)
      /\ Clamp(BlueOf(r, g, b)) = BlueOf(r, g, b)
      /\ Clamp(RedOf(r, g, b)) = RedOf(r, g, b)
  <2>1. LumaOf(r, g, b) \in 16 .. 240 BY SMT, PixelRange
  <2>2. BlueOf(r, g, b) \in 16 .. 240 BY SMT, PixelRange
  <2>3. RedOf(r, g, b) \in 16 .. 240 BY SMT, PixelRange
  <2>4. QED BY <1>1, <2>1, <2>2, <2>3, Zenon
<1>3. QED BY <1>2, Zenon DEF RgbToYuv

(* jpeg_to_yuyv: every two pixels become a YUYV group within BT.601's        *)
(* limited range, the averaged chroma included.                              *)
THEOREM YuyvLimitedRange ==
  \A p \in [1 .. 6 -> Byte] : LimitedRange(YuyvPair(p))
<1> SUFFICES ASSUME NEW p \in [1 .. 6 -> Byte]
             PROVE  LimitedRange(YuyvPair(p))
  BY SMT
<1> DEFINE left == RgbToYuv(p[1], p[2], p[3])
           right == RgbToYuv(p[4], p[5], p[6])
<1>1. /\ left[1] \in 16 .. 235 /\ left[2] \in 16 .. 240 /\ left[3] \in 16 .. 240
  BY SMTT(30), ClampIsIdle, PixelRange
<1>2. /\ right[1] \in 16 .. 235 /\ right[2] \in 16 .. 240
      /\ right[3] \in 16 .. 240
  BY SMT, ClampIsIdle, PixelRange
<1>3. YuyvPair(p) = << left[1], Average(left[2], right[2]), right[1],
                       Average(left[3], right[3]) >>
  BY SMT DEF YuyvPair
<1> HIDE DEF left, right
<1> DEFINE Chroma == 16 .. 240
<1>4. \A x, y \in Chroma : Average(x, y) \in Chroma BY SMT DEF Average
<1>5. Average(left[2], right[2]) \in Chroma /\ Average(left[3], right[3]) \in Chroma
  <2>1. left[2] \in Chroma /\ right[2] \in Chroma BY SMT, <1>1, <1>2
  <2>2. left[3] \in Chroma /\ right[3] \in Chroma BY SMT, <1>1, <1>2
  <2> HIDE DEF Chroma
  <2>3. QED BY Zenon, <1>4, <2>1, <2>2
<1> HIDE DEF YuyvPair
<1>6. QED BY SMT, <1>1, <1>2, <1>3, <1>5 DEF LimitedRange

(* rgb_to_yuv: grey has no colour, to the last bit. *)
THEOREM GreyIsNeutral ==
  \A x \in Byte : BlueOf(x, x, x) = 128 /\ RedOf(x, x, x) = 128
BY SMT DEF BlueOf, RedOf, Byte
-----------------------------------------------------------------------------
(* The file of a capture.  What the provers need of the encoding is that     *)
(* every piece is a sequence, and how long the pieces before and around the  *)
(* Duration are.                                                             *)

LEMMA ByteWidthType == \A v \in Nat : ByteWidth(v) \in 1 .. 4
<1> TAKE v \in Nat
<1>1. \E n \in 1 .. 4 : /\ n = 1 \/ v >= Power256[n]
                        /\ n = 4 \/ v < Power256[n + 1]
  <2>1. CASE v < Power256[2] BY <2>1
  <2>2. CASE v < Power256[3] /\ ~(v < Power256[2]) BY <2>2 DEF Power256
  <2>3. CASE v < Power256[4] /\ ~(v < Power256[3]) BY <2>3 DEF Power256
  <2>4. CASE ~(v < Power256[4]) BY <2>4 DEF Power256
  <2> QED BY <2>1, <2>2, <2>3, <2>4
<1> QED BY <1>1 DEF ByteWidth

LEMMA FourByteWidth ==
  ASSUME NEW v \in Nat, v >= Power256[4] PROVE ByteWidth(v) = 4
<1>1. 4 = 1 \/ v >= Power256[4] OBVIOUS
<1>2. \A n \in 1 .. 4 : (n = 1 \/ v >= Power256[n])
                        /\ (n = 4 \/ v < Power256[n + 1]) => n = 4
  BY Powers, SMT
<1> QED BY <1>1, <1>2 DEF ByteWidth

LEMMA TwoByteWidth ==
  ASSUME NEW v \in Nat, 256 <= v, v < 65536 PROVE ByteWidth(v) = 2
<1>1. v >= Power256[2] /\ v < Power256[3] BY Powers
<1>2. \A n \in 1 .. 4 : (n = 1 \/ v >= Power256[n])
                        /\ (n = 4 \/ v < Power256[n + 1]) => n = 2
  BY Powers, SMT
<1> QED BY <1>1, <1>2 DEF ByteWidth

(* The bytes of a number. *)
LEMMA BigEndianIs ==
  ASSUME NEW value \in Nat, NEW n \in 1 .. 4
  PROVE  BigEndian(value, n) \in Seq(Nat) /\ Len(BigEndian(value, n)) = n
<1>1. \A i \in 1 .. n : Power256[n - i + 1] \in Nat \ {0}
  <2>1. \A k \in 1 .. 4 : Power256[k] \in Nat \ {0} BY Powers
  <2>2. \A i \in 1 .. n : n - i + 1 \in 1 .. 4 OBVIOUS
  <2> QED BY <2>1, <2>2
<1>2. \A p \in Nat \ {0} : (value \div p) % 256 \in Nat OBVIOUS
<1>3. \A i \in 1 .. n : (value \div Power256[n - i + 1]) % 256 \in Nat
  BY <1>1, <1>2
<1>4. BigEndian(value, n) \in [1 .. n -> Nat] BY <1>3 DEF BigEndian
<1> QED BY <1>4

LEMMA WriteIdIs ==
  ASSUME NEW id \in Nat
  PROVE  /\ WriteId(id) \in Seq(Nat) /\ Len(WriteId(id)) = ByteWidth(id)
         /\ ByteWidth(id) \in 1 .. 4
BY ByteWidthType, BigEndianIs DEF WriteId

LEMMA WriteSizeIs ==
  ASSUME NEW size \in Nat, size <= LargestSize
  PROVE  /\ WriteSize(size) \in Seq(Nat)
         /\ Len(WriteSize(size)) = SizeWidth(size)
         /\ SizeWidth(size) \in 1 .. 4
<1>1. SizeWidth(size) \in 1 .. 4 BY SizeWidthIs DEF MaxWidth
<1>2. \A w \in 1 .. 4 : SizeLimit[w] \in Nat BY Limits
<1>3. size + SizeLimit[SizeWidth(size)] \in Nat BY <1>1, <1>2
<1> QED BY <1>1, <1>3, BigEndianIs DEF WriteSize

(* An element and its length. *)
LEMMA ElementIs ==
  ASSUME NEW id \in Nat, NEW payload \in Seq(Nat), Len(payload) <= LargestSize
  PROVE  /\ Element(id, payload) \in Seq(Nat)
         /\ Len(Element(id, payload)) =
              ByteWidth(id) + SizeWidth(Len(payload)) + Len(payload)
         /\ ByteWidth(id) \in 1 .. 4 /\ SizeWidth(Len(payload)) \in 1 .. 4
<1>1. Len(payload) \in Nat OBVIOUS
<1>2. /\ WriteSize(Len(payload)) \in Seq(Nat)
      /\ Len(WriteSize(Len(payload))) = SizeWidth(Len(payload))
      /\ SizeWidth(Len(payload)) \in 1 .. 4
  BY <1>1, WriteSizeIs
<1> DEFINE i == WriteId(id)  z == WriteSize(Len(payload))
<1>3. i \in Seq(Nat) /\ z \in Seq(Nat) BY <1>2, WriteIdIs
<1>4. Element(id, payload) = i \o z \o payload BY DEF Element
<1> HIDE DEF i, z
<1>5. /\ i \o z \o payload \in Seq(Nat)
      /\ Len(i \o z \o payload) = Len(i) + Len(z) + Len(payload)
  BY <1>3
<1> QED BY <1>2, <1>4, <1>5, WriteIdIs DEF i, z

(* Elements of a few bytes. *)
LEMMA SmallElement ==
  ASSUME NEW id \in Nat, NEW payload \in Seq(Nat), Len(payload) <= 400
  PROVE  /\ Element(id, payload) \in Seq(Nat)
         /\ Len(Element(id, payload)) \in 0 .. Len(payload) + 8
<1>1. Len(payload) \in Nat /\ Len(payload) <= LargestSize BY DEF LargestSize
<1>2. /\ Element(id, payload) \in Seq(Nat)
      /\ Len(Element(id, payload)) =
           ByteWidth(id) + SizeWidth(Len(payload)) + Len(payload)
      /\ ByteWidth(id) \in 1 .. 4 /\ SizeWidth(Len(payload)) \in 1 .. 4
  BY <1>1, ElementIs
<1>3. \A a, b \in 1 .. 4 : \A c \in Nat : a + b + c \in 0 .. c + 8
  OBVIOUS
<1>4. ByteWidth(id) + SizeWidth(Len(payload)) + Len(payload)
        \in 0 .. Len(payload) + 8
  BY <1>1, <1>2, <1>3
<1> QED BY <1>2, <1>4, Zenon

LEMMA UintElementIs ==
  ASSUME NEW id \in Nat, NEW value \in Nat
  PROVE  /\ UintElement(id, value) \in Seq(Nat)
         /\ Len(UintElement(id, value)) \in 0 .. 12
<1>1. ByteWidth(value) \in 1 .. 4 BY ByteWidthType
<1> DEFINE b == BigEndian(value, ByteWidth(value))
<1>2. b \in Seq(Nat) /\ Len(b) \in 1 .. 4 BY <1>1, BigEndianIs
<1> HIDE DEF b
<1>3. PICK n \in 1 .. 4 : Len(b) = n BY <1>2, Zenon
<1>4. Element(id, b) \in Seq(Nat) /\ Len(Element(id, b)) \in 0 .. n + 8
  <2>1. n <= 400 OBVIOUS
  <2> QED BY <1>2, <1>3, <2>1, SmallElement, Zenon
<1>5. Len(Element(id, b)) \in 0 .. 12
  <2>1. 0 .. n + 8 \subseteq 0 .. 12 OBVIOUS
  <2> QED BY <1>4, <2>1, Zenon
<1>6. UintElement(id, value) = Element(id, b) BY DEF UintElement, b
<1> QED BY <1>4, <1>5, <1>6, Zenon

LEMMA F64Is ==
  ASSUME NEW x \in Nat
  PROVE  F64(x) \in Seq(Nat) /\ Len(F64(x)) = 8
<1>1. F64(x) \in [1 .. 8 -> Nat] BY DEF F64
<1> QED BY <1>1 DEF F64

LEMMA FloatElementIs ==
  ASSUME NEW id \in Nat, NEW x \in Nat
  PROVE  /\ FloatElement(id, x) \in Seq(Nat)
         /\ Len(FloatElement(id, x)) = ByteWidth(id) + 9
<1>1. 8 <= LargestSize /\ SizeWidth(8) = 1
  <2>1. 8 <= LargestSize BY DEF LargestSize
  <2>2. /\ SizeWidth(8) \in 1 .. 4
        /\ \A v \in 1 .. SizeWidth(8) - 1 : 8 >= SizeLimit[v] - 1
    BY <2>1, SizeWidthIs DEF MaxWidth
  <2>3. ~(8 >= SizeLimit[1] - 1) BY Limits
  <2>4. ~(1 \in 1 .. SizeWidth(8) - 1) BY <2>2, <2>3
  <2> QED BY <2>1, <2>2, <2>4
<1>2. F64(x) \in Seq(Nat) /\ Len(F64(x)) = 8 BY F64Is
<1>3. /\ Element(id, F64(x)) \in Seq(Nat)
      /\ Len(Element(id, F64(x))) =
           ByteWidth(id) + SizeWidth(Len(F64(x))) + Len(F64(x))
      /\ ByteWidth(id) \in 1 .. 4
  BY <1>1, <1>2, ElementIs
<1> QED BY <1>1, <1>2, <1>3 DEF FloatElement

LEMMA StringElementIs ==
  ASSUME NEW id \in Nat, NEW text \in DOMAIN Text
  PROVE  /\ StringElement(id, text) \in Seq(Nat)
         /\ Len(StringElement(id, text)) \in 0 .. 21
<1>1. Text[text] \in 1 .. 13 BY DEF Text
<1> DEFINE n == Text[text]
           b == [i \in 1 .. n |-> 256 + n]
<1>2. b \in Seq(Nat) /\ Len(b) = n
  <2> HIDE DEF n
  <2>1. n \in Nat /\ 256 + n \in Nat BY <1>1 DEF n
  <2> QED BY <2>1
<1>3. StringElement(id, text) = Element(id, b) BY DEF StringElement
<1> HIDE DEF b
<1>4. PICK m \in 1 .. 13 : Len(b) = m BY <1>1, <1>2, Zenon
<1>5. Element(id, b) \in Seq(Nat) /\ Len(Element(id, b)) \in 0 .. 21
  <2>1. m <= 400 /\ 0 .. m + 8 \subseteq 0 .. 21 OBVIOUS
  <2>2. /\ Element(id, b) \in Seq(Nat)
        /\ Len(Element(id, b)) \in 0 .. m + 8
    BY <1>2, <1>4, <2>1, SmallElement, Zenon
  <2> QED BY <2>1, <2>2, Zenon
<1> QED BY <1>3, <1>5, Zenon

(* Sequences of at most n bytes. *)
Short(s, n) == s \in Seq(Nat) /\ Len(s) \in Nat /\ Len(s) <= n

LEMMA ShortJoin ==
  ASSUME NEW a, NEW b, NEW m \in Nat, NEW n \in Nat, NEW k \in Nat,
         m + n <= k, Short(a, m), Short(b, n)
  PROVE  Short(a \o b, k) /\ Len(a \o b) = Len(a) + Len(b)
<1>1. a \in Seq(Nat) /\ b \in Seq(Nat) /\ Len(a) <= m /\ Len(b) <= n
  BY DEF Short
<1>2. a \o b \in Seq(Nat) /\ Len(a \o b) = Len(a) + Len(b) BY <1>1
<1>3. Len(a) \in Nat /\ Len(b) \in Nat BY <1>1
<1> QED BY <1>1, <1>2, <1>3 DEF Short

(* Members of an interval from 0 are bounded numbers. *)
LEMMA ShortBound ==
  ASSUME NEW s \in Seq(Nat), NEW n \in Nat, Len(s) \in 0 .. n
  PROVE  Short(s, n)
<1>1. \A l \in 0 .. n : l \in Nat /\ l <= n OBVIOUS
<1> QED BY <1>1, Zenon DEF Short

LEMMA ShortUint ==
  ASSUME NEW id \in Nat, NEW value \in Nat
  PROVE  Short(UintElement(id, value), 12)
BY UintElementIs, ShortBound

LEMMA ShortString ==
  ASSUME NEW id \in Nat, NEW text \in DOMAIN Text
  PROVE  Short(StringElement(id, text), 21)
BY StringElementIs, ShortBound

LEMMA ShortElement ==
  ASSUME NEW id \in Nat, NEW payload, NEW n \in Nat, n <= 400,
         Short(payload, n)
  PROVE  Short(Element(id, payload), n + 8)
<1>1. payload \in Seq(Nat) /\ Len(payload) \in Nat /\ Len(payload) <= n
  BY DEF Short
<1>2. Len(payload) <= 400 BY <1>1
<1>3. /\ Element(id, payload) \in Seq(Nat)
      /\ Len(Element(id, payload)) \in 0 .. Len(payload) + 8
  BY <1>1, <1>2, SmallElement
<1>4. 0 .. Len(payload) + 8 \subseteq 0 .. n + 8 BY <1>1
<1>5. Len(Element(id, payload)) \in 0 .. n + 8 BY <1>3, <1>4, Zenon
<1>6. n + 8 \in Nat OBVIOUS
<1> QED BY <1>3, <1>5, <1>6, ShortBound

LEMMA ShortEbmlHeader == Short(EbmlHeader, 93)
<1> DEFINE a == UintElement(\h4286, 1)  b == UintElement(\h42f7, 1)
           c == UintElement(\h42f2, 4)  d == UintElement(\h42f3, 8)
           e == StringElement(\h4282, "matroska")
           f == UintElement(\h4287, 4)  g == UintElement(\h4285, 2)
<1>1. /\ Short(a, 12) /\ Short(b, 12) /\ Short(c, 12) /\ Short(d, 12)
      /\ Short(f, 12) /\ Short(g, 12)
  BY ShortUint
<1>2. Short(e, 21) BY ShortString DEF Text
<1>3. EbmlHeader = a \o b \o c \o d \o e \o f \o g BY DEF EbmlHeader
<1> HIDE DEF a, b, c, d, e, f, g
<1>4. Short(a \o b, 24) BY <1>1, ShortJoin
<1>5. Short(a \o b \o c, 36) BY <1>1, <1>4, ShortJoin
<1>6. Short(a \o b \o c \o d, 48) BY <1>1, <1>5, ShortJoin
<1>7. Short(a \o b \o c \o d \o e, 69) BY <1>2, <1>6, ShortJoin
<1>8. Short(a \o b \o c \o d \o e \o f, 81) BY <1>1, <1>7, ShortJoin
<1>9. Short(a \o b \o c \o d \o e \o f \o g, 93) BY <1>1, <1>8, ShortJoin
<1> QED BY <1>3, <1>9

(* The Duration lies in the Info. *)
LEMMA ShortInfo ==
  /\ Short(InfoBeforeDuration, 12) /\ Short(Info, 65)
  /\ Len(Info) >= Len(InfoBeforeDuration) + 11
<1> DEFINE a == InfoBeforeDuration
           b == FloatElement(\h4489, 0)
           c == StringElement(\h4d80, "handycam")
           d == StringElement(\h5741, "handycam")
<1>1. Short(a, 12) BY ShortUint DEF InfoBeforeDuration
<1>2. Short(b, 11) /\ Len(b) = 11
  <2>1. ByteWidth(\h4489) = 2 BY TwoByteWidth
  <2>2. b \in Seq(Nat) /\ Len(b) = ByteWidth(\h4489) + 9
    BY FloatElementIs
  <2> HIDE DEF b
  <2> QED BY <2>1, <2>2 DEF Short
<1>3. Short(c, 21) /\ Short(d, 21) BY ShortString DEF Text
<1>4. Info = a \o b \o c \o d BY DEF Info
<1> HIDE DEF a, b, c, d
<1>5. Short(a \o b, 23) /\ Len(a \o b) = Len(a) + Len(b)
  <2>1. Short(b, 11) BY <1>2
  <2>2. 12 \in Nat /\ 11 \in Nat /\ 23 \in Nat /\ 12 + 11 <= 23 OBVIOUS
  <2> QED BY <1>1, <2>1, <2>2, ShortJoin, Zenon
<1>6. Short(a \o b \o c, 44) /\ Len(a \o b \o c) = Len(a \o b) + Len(c)
  BY <1>3, <1>5, ShortJoin
<1>7. /\ Short(a \o b \o c \o d, 65)
      /\ Len(a \o b \o c \o d) = Len(a \o b \o c) + Len(d)
  BY <1>3, <1>6, ShortJoin
<1>8. Len(a) \in Nat /\ Len(c) \in Nat /\ Len(d) \in Nat
  BY <1>1, <1>3 DEF Short
<1>9. Len(a \o b \o c \o d) >= Len(a) + 11
  BY <1>2, <1>5, <1>6, <1>7, <1>8
<1> QED BY <1>1, <1>4, <1>7, <1>9 DEF a

LEMMA ShortTrackEntries == Short(TrackEntries, 250)
<1>1. Short(VideoEntry, 101)
  <2> DEFINE a == UintElement(\hd7, VideoTrack)
             b == UintElement(\h73c5, VideoTrack)
             c == UintElement(\h83, 1)  d == StringElement(\h86, "V_MJPEG")
             e == UintElement(\h23e383, 40000000)
             w == UintElement(\hb0, 320)  h == UintElement(\hba, 240)
             f == Element(\he0, w \o h)
  <2>1. /\ Short(a, 12) /\ Short(b, 12) /\ Short(c, 12) /\ Short(e, 12)
        /\ Short(w, 12) /\ Short(h, 12)
    BY ShortUint DEF VideoTrack
  <2>2. Short(d, 21) BY ShortString DEF Text
  <2>3. VideoEntry = a \o b \o c \o d \o e \o f BY DEF VideoEntry
  <2> HIDE DEF a, b, c, d, e, w, h
  <2>4. Short(w \o h, 24) BY <2>1, ShortJoin
  <2>5. Short(f, 24 + 8) BY <2>4, ShortElement
  <2> HIDE DEF f
  <2>6. Short(a \o b, 24) BY <2>1, ShortJoin
  <2>7. Short(a \o b \o c, 36) BY <2>1, <2>6, ShortJoin
  <2>8. Short(a \o b \o c \o d, 57) BY <2>2, <2>7, ShortJoin
  <2>9. Short(a \o b \o c \o d \o e, 69) BY <2>1, <2>8, ShortJoin
  <2>10. Short(a \o b \o c \o d \o e \o f, 101) BY <2>5, <2>9, ShortJoin
  <2> QED BY <2>3, <2>10
<1>2. Short(AudioEntry, 102)
  <2> DEFINE a == UintElement(\hd7, AudioTrack)
             b == UintElement(\h73c5, AudioTrack)
             c == UintElement(\h83, 2)
             d == StringElement(\h86, "A_PCM_INT_LIT")
             r == FloatElement(\hb5, 16000000)
             n == UintElement(\h9f, 2)  w == UintElement(\h6264, 16)
             e == Element(\he1, r \o n \o w)
  <2>1. /\ Short(a, 12) /\ Short(b, 12) /\ Short(c, 12)
        /\ Short(n, 12) /\ Short(w, 12)
    BY ShortUint DEF AudioTrack
  <2>2. Short(d, 21) BY ShortString DEF Text
  <2>3. AudioEntry = a \o b \o c \o d \o e BY DEF AudioEntry
  <2>4. Short(r, 13)
    <3>1. ByteWidth(\hb5) \in 1 .. 4 BY ByteWidthType
    <3>2. r \in Seq(Nat) /\ Len(r) = ByteWidth(\hb5) + 9
      BY FloatElementIs
    <3> HIDE DEF r
    <3> QED BY <3>1, <3>2 DEF Short
  <2> HIDE DEF a, b, c, d, r, n, w
  <2>5. Short(r \o n, 25) BY <2>1, <2>4, ShortJoin
  <2>6. Short(r \o n \o w, 37) BY <2>1, <2>5, ShortJoin
  <2>7. Short(e, 37 + 8) BY <2>6, ShortElement
  <2> HIDE DEF e
  <2>8. Short(a \o b, 24) BY <2>1, ShortJoin
  <2>9. Short(a \o b \o c, 36) BY <2>1, <2>8, ShortJoin
  <2>10. Short(a \o b \o c \o d, 57) BY <2>2, <2>9, ShortJoin
  <2>11. Short(a \o b \o c \o d \o e, 102) BY <2>7, <2>10, ShortJoin
  <2> QED BY <2>3, <2>11
<1>3. Short(Element(\hae, VideoEntry), 101 + 8) BY <1>1, ShortElement
<1>4. Short(Element(\hae, AudioEntry), 102 + 8) BY <1>2, ShortElement
<1> QED BY <1>3, <1>4, ShortJoin DEF TrackEntries

-----------------------------------------------------------------------------
(* Calls of the file that a method may make while it appends. *)
Writes == [op : {"write_all"}, bytes : Seq(Nat), direct : BOOLEAN]
Appends == Writes \cup {Seek("current"), Flush}
           \cup [op : {"return"}, end : Nat]

DurationEnd == DurationOffset + 8

(* What a call adds to the file. *)
SizeOf(call) == IF call.op = "write_all" THEN Len(call.bytes) ELSE 0

(* The sum of the numbers after the first j of nine. *)
Sum(j, s1, s2, s3, s4, s5, s6, s7, s8, s9) ==
  LET Size(i, s) == IF j < i THEN s ELSE 0
  IN  Size(1, s1) + Size(2, s2) + Size(3, s3) + Size(4, s4) + Size(5, s5)
      + Size(6, s6) + Size(7, s7) + Size(8, s8) + Size(9, s9)

(* What is still to come of the header up to the Info when k calls are done. *)
Owed(k) == Sum(k, SizeOf(NewCalls[1]), SizeOf(NewCalls[2]),
               SizeOf(NewCalls[3]), SizeOf(NewCalls[4]), SizeOf(NewCalls[5]),
               SizeOf(NewCalls[6]), SizeOf(NewCalls[7]), SizeOf(NewCalls[8]),
               SizeOf(NewCalls[9]))

(* A piece of the header. *)
LEMMA WriteOf ==
  ASSUME NEW bytes, Short(bytes, LargestSize)
  PROVE  /\ WriteAll(bytes) \in Writes /\ WriteAll(bytes).op = "write_all"
         /\ SizeOf(WriteAll(bytes)) = Len(bytes)
BY DEF Short, Writes, WriteAll, SizeOf

LEMMA Ids ==
  /\ EbmlId \in Nat /\ SegmentId \in Nat /\ InfoId \in Nat
  /\ TracksId \in Nat /\ ClusterId \in Nat /\ InfoId >= Power256[4]
BY SMT DEF Power256, EbmlId, SegmentId, InfoId, TracksId, ClusterId

LEMMA ShortFits ==
  ASSUME NEW s, NEW n \in Nat, n <= 400, Short(s, n)
  PROVE  Short(s, LargestSize) /\ Len(s) \in Nat /\ Len(s) <= LargestSize
BY DEF Short, LargestSize

LEMMA ShortId == ASSUME NEW id \in Nat PROVE Short(WriteId(id), LargestSize)
<1>1. Len(WriteId(id)) \in 1 .. 4 /\ WriteId(id) \in Seq(Nat) BY WriteIdIs
<1>2. \A l \in 1 .. 4 : l \in Nat /\ l <= LargestSize BY SMT DEF LargestSize
<1> QED BY <1>1, <1>2, Zenon DEF Short

LEMMA ShortSize ==
  ASSUME NEW size \in Nat, size <= LargestSize
  PROVE  Short(WriteSize(size), LargestSize)
<1>1. Len(WriteSize(size)) \in 1 .. 4 /\ WriteSize(size) \in Seq(Nat)
  BY WriteSizeIs
<1>2. \A l \in 1 .. 4 : l \in Nat /\ l <= LargestSize BY SMT DEF LargestSize
<1> QED BY <1>1, <1>2, Zenon DEF Short

(* The calls that make the header append, end in one return, and write the   *)
(* whole Info, so at least up to the end of the Duration.                    *)
LEMMA HeaderCalls ==
  /\ Len(NewCalls) = 13 /\ NewCalls \in Seq(Appends)
  /\ \A k \in 1 .. 13 : /\ SizeOf(NewCalls[k]) \in Nat
                        /\ NewCalls[k].op = "return" <=> k = 13
  /\ DurationOffset \in Nat
  /\ Owed(0) >= DurationEnd
<1> DEFINE p1 == WriteId(EbmlId)       p2 == WriteSize(Len(EbmlHeader))
           p3 == EbmlHeader            p4 == WriteId(SegmentId)
           p5 == UnknownSize           p7 == WriteId(InfoId)
           p8 == WriteSize(Len(Info))  p9 == Info
           p10 == WriteId(TracksId)    p11 == WriteSize(Len(TrackEntries))
           p12 == TrackEntries
<1>1. /\ Short(p3, LargestSize) /\ Short(p9, LargestSize)
      /\ Short(p12, LargestSize)
      /\ Len(p3) \in Nat /\ Len(p9) \in Nat /\ Len(p12) \in Nat
      /\ Len(p3) <= LargestSize /\ Len(p9) <= LargestSize
      /\ Len(p12) <= LargestSize
  BY ShortEbmlHeader, ShortInfo, ShortTrackEntries, ShortFits
<1>2. Short(p1, LargestSize) /\ Short(p4, LargestSize)
      /\ Short(p7, LargestSize) /\ Short(p10, LargestSize)
  BY Ids, ShortId
<1>3. Short(p2, LargestSize) /\ Short(p8, LargestSize)
      /\ Short(p11, LargestSize)
  BY <1>1, ShortSize
<1>4. Short(p5, LargestSize) /\ Len(p5) = 8
  BY DEF UnknownSize, Short, LargestSize
<1>5. NewCalls = << WriteAll(p1), WriteAll(p2), WriteAll(p3), WriteAll(p4),
                    WriteAll(p5), Seek("current"), WriteAll(p7),
                    WriteAll(p8), WriteAll(p9), WriteAll(p10),
                    WriteAll(p11), WriteAll(p12), Return(0) >>
  BY Zenon DEF NewCalls
<1>6. /\ p7 \in Seq(Nat) /\ Len(p7) = 4 /\ Len(p8) = SizeWidth(Len(p9))
      /\ Len(p9) >= Len(InfoBeforeDuration) + 11
      /\ Len(InfoBeforeDuration) \in Nat
  <2>1. ByteWidth(InfoId) = 4 BY Ids, FourByteWidth
  <2>2. Len(p8) = SizeWidth(Len(p9)) BY <1>1, WriteSizeIs
  <2>3. Len(p7) = 4 /\ p7 \in Seq(Nat) BY <2>1, Ids, WriteIdIs
  <2> QED BY <2>2, <2>3, ShortInfo DEF Short
<1>7. Len(BeforeInfo) = Len(p1) + Len(p2) + Len(p3) + Len(p4) + 8
  <2>1. BeforeInfo = p1 \o p2 \o p3 \o p4 \o p5
    BY Zenon DEF BeforeInfo, Element
  <2>2. /\ p1 \in Seq(Nat) /\ p2 \in Seq(Nat) /\ p3 \in Seq(Nat)
        /\ p4 \in Seq(Nat) /\ p5 \in Seq(Nat)
    BY <1>1, <1>2, <1>3, <1>4 DEF Short
  <2> HIDE DEF p1, p2, p3, p4, p5
  <2>3. Len(p1 \o p2 \o p3 \o p4 \o p5) =
          Len(p1) + Len(p2) + Len(p3) + Len(p4) + Len(p5)
    BY <2>2
  <2> QED BY <1>4, <2>1, <2>3
<1>8. DurationOffset = Len(BeforeInfo) + 4 + Len(p8)
                       + Len(InfoBeforeDuration) + 3
  BY <1>6, Zenon DEF DurationOffset
<1> HIDE DEF p1, p2, p3, p4, p5, p7, p8, p9, p10, p11, p12
<1>9. /\ Len(p1) \in Nat /\ Len(p2) \in Nat /\ Len(p3) \in Nat
      /\ Len(p4) \in Nat /\ Len(p8) \in Nat /\ Len(p9) \in Nat
      /\ Len(p10) \in Nat /\ Len(p11) \in Nat /\ Len(p12) \in Nat
  BY <1>1, <1>2, <1>3 DEF Short
<1>10. /\ WriteAll(p1) \in Writes /\ WriteAll(p2) \in Writes
       /\ WriteAll(p3) \in Writes /\ WriteAll(p4) \in Writes
       /\ WriteAll(p5) \in Writes /\ WriteAll(p7) \in Writes
       /\ WriteAll(p8) \in Writes /\ WriteAll(p9) \in Writes
       /\ WriteAll(p10) \in Writes /\ WriteAll(p11) \in Writes
       /\ WriteAll(p12) \in Writes
  BY <1>1, <1>2, <1>3, <1>4, WriteOf
<1>11. /\ NewCalls[1] = WriteAll(p1) /\ NewCalls[2] = WriteAll(p2)
       /\ NewCalls[3] = WriteAll(p3) /\ NewCalls[4] = WriteAll(p4)
       /\ NewCalls[5] = WriteAll(p5) /\ NewCalls[6] = Seek("current")
       /\ NewCalls[7] = WriteAll(p7) /\ NewCalls[8] = WriteAll(p8)
       /\ NewCalls[9] = WriteAll(p9) /\ NewCalls[10] = WriteAll(p10)
       /\ NewCalls[11] = WriteAll(p11) /\ NewCalls[12] = WriteAll(p12)
       /\ NewCalls[13] = Return(0) /\ Len(NewCalls) = 13
  BY <1>5
<1>12. NewCalls \in Seq(Appends)
  <2>1. /\ Writes \subseteq Appends /\ Seek("current") \in Appends
        /\ Return(0) \in Appends
    BY DEF Appends, Return
  <2>2. \A a1, a2, a3, a4, a5, a6, a7, a8, a9, a10, a11, a12, a13 \in Appends :
          << a1, a2, a3, a4, a5, a6, a7, a8, a9, a10, a11, a12, a13 >>
            \in Seq(Appends)
    OBVIOUS
  <2> QED BY <1>5, <1>10, <2>1, <2>2, Zenon
<1>13. /\ \A w \in Writes : w.op = "write_all" /\ SizeOf(w) = Len(w.bytes)
       /\ Seek("current").op = "seek" /\ SizeOf(Seek("current")) = 0
       /\ Return(0).op = "return" /\ SizeOf(Return(0)) = 0
  BY DEF Writes, Seek, Return, SizeOf
<1>14. /\ SizeOf(NewCalls[1]) = Len(p1) /\ SizeOf(NewCalls[2]) = Len(p2)
       /\ SizeOf(NewCalls[3]) = Len(p3) /\ SizeOf(NewCalls[4]) = Len(p4)
       /\ SizeOf(NewCalls[5]) = 8 /\ SizeOf(NewCalls[6]) = 0
       /\ SizeOf(NewCalls[7]) = 4 /\ SizeOf(NewCalls[8]) = Len(p8)
       /\ SizeOf(NewCalls[9]) = Len(p9) /\ SizeOf(NewCalls[10]) = Len(p10)
       /\ SizeOf(NewCalls[11]) = Len(p11) /\ SizeOf(NewCalls[12]) = Len(p12)
       /\ SizeOf(NewCalls[13]) = 0
  BY <1>1, <1>2, <1>3, <1>4, <1>6, <1>11, <1>13, WriteOf, ZenonT(30)
<1>15. \A k \in 1 .. 13 : SizeOf(NewCalls[k]) \in Nat
  <2>1. /\ SizeOf(NewCalls[1]) \in Nat /\ SizeOf(NewCalls[2]) \in Nat
        /\ SizeOf(NewCalls[3]) \in Nat /\ SizeOf(NewCalls[4]) \in Nat
        /\ SizeOf(NewCalls[5]) \in Nat /\ SizeOf(NewCalls[6]) \in Nat
        /\ SizeOf(NewCalls[7]) \in Nat /\ SizeOf(NewCalls[8]) \in Nat
        /\ SizeOf(NewCalls[9]) \in Nat /\ SizeOf(NewCalls[10]) \in Nat
        /\ SizeOf(NewCalls[11]) \in Nat /\ SizeOf(NewCalls[12]) \in Nat
        /\ SizeOf(NewCalls[13]) \in Nat
    <3>1. 8 \in Nat /\ 4 \in Nat /\ 0 \in Nat OBVIOUS
    <3> QED BY <1>9, <1>14, <3>1, Zenon
  <2>2. \A k \in 1 .. 13 :
          \/ k = 1 \/ k = 2 \/ k = 3 \/ k = 4 \/ k = 5 \/ k = 6 \/ k = 7
          \/ k = 8 \/ k = 9 \/ k = 10 \/ k = 11 \/ k = 12 \/ k = 13
    OBVIOUS
  <2> QED BY <2>1, <2>2, Zenon
<1>16. \A k \in 1 .. 13 : NewCalls[k].op = "return" <=> k = 13
  <2>1. \A w \in Writes : w.op # "return" BY <1>13
  <2>2. Seek("current").op # "return" BY <1>13
  <2>3. \A k \in 1 .. 12 : NewCalls[k].op # "return"
    <3>1. \A k \in 1 .. 12 : NewCalls[k] \in Writes \cup {Seek("current")}
      BY <1>10, <1>11
    <3> QED BY <2>1, <2>2, <3>1, Zenon
  <2> QED BY <1>11, <1>13, <2>3
<1>17. Owed(0) = Len(p1) + Len(p2) + Len(p3) + Len(p4) + 8 + 0 + 4 + Len(p8)
                 + Len(p9)
  BY <1>14 DEF Owed, Sum
<1>18. DurationOffset \in Nat /\ Owed(0) >= DurationEnd
  <2>2. DurationOffset = Len(p1) + Len(p2) + Len(p3) + Len(p4) + 8 + 4
                         + Len(p8) + Len(InfoBeforeDuration) + 3
    BY <1>7, <1>8
  <2>3. PICK a \in Nat, b \in Nat, c \in Nat, d \in Nat, e \in Nat, f \in Nat,
             g \in Nat :
          /\ a = Len(p1) /\ b = Len(p2) /\ c = Len(p3) /\ d = Len(p4)
          /\ e = Len(p8) /\ f = Len(p9) /\ g = Len(InfoBeforeDuration)
    BY <1>6, <1>9, Zenon
  <2>4. f >= g + 11 BY <1>6, <2>3
  <2>5. /\ a + b + c + d + 8 + 4 + e + g + 3 \in Nat
        /\ a + b + c + d + 8 + 0 + 4 + e + f
             >= a + b + c + d + 8 + 4 + e + g + 3 + 8
    BY <2>4
  <2>6. DurationOffset = a + b + c + d + 8 + 4 + e + g + 3
    BY <2>2, <2>3, Zenon
  <2>7. Owed(0) = a + b + c + d + 8 + 0 + 4 + e + f BY <1>17, <2>3, Zenon
  <2> QED BY <2>5, <2>6, <2>7, Zenon DEF DurationEnd
<1> QED BY <1>11, <1>12, <1>15, <1>16, <1>18

(* One call more leaves that much less to come. *)
LEMMA OwedStep ==
  ASSUME NEW k \in 0 .. 12
  PROVE  /\ Owed(k) \in Nat /\ Owed(k + 1) \in Nat
         /\ Owed(k) <= SizeOf(NewCalls[k + 1]) + Owed(k + 1)
<1>1. \A i \in 1 .. 13 : SizeOf(NewCalls[i]) \in Nat BY HeaderCalls
<1>2. /\ 1 \in 1 .. 13 /\ 2 \in 1 .. 13 /\ 3 \in 1 .. 13 /\ 4 \in 1 .. 13
      /\ 5 \in 1 .. 13 /\ 6 \in 1 .. 13 /\ 7 \in 1 .. 13 /\ 8 \in 1 .. 13
      /\ 9 \in 1 .. 13 /\ k + 1 \in 1 .. 13
      /\ 0 + 1 = 1 /\ 1 + 1 = 2 /\ 2 + 1 = 3 /\ 3 + 1 = 4 /\ 4 + 1 = 5
      /\ 5 + 1 = 6 /\ 6 + 1 = 7 /\ 7 + 1 = 8 /\ 8 + 1 = 9
  OBVIOUS
<1>3. /\ SizeOf(NewCalls[1]) \in Nat /\ SizeOf(NewCalls[2]) \in Nat
      /\ SizeOf(NewCalls[3]) \in Nat /\ SizeOf(NewCalls[4]) \in Nat
      /\ SizeOf(NewCalls[5]) \in Nat /\ SizeOf(NewCalls[6]) \in Nat
      /\ SizeOf(NewCalls[7]) \in Nat /\ SizeOf(NewCalls[8]) \in Nat
      /\ SizeOf(NewCalls[9]) \in Nat /\ SizeOf(NewCalls[k + 1]) \in Nat
  BY <1>1, <1>2, Zenon
<1> DEFINE x(i) == SizeOf(NewCalls[i])
<1>4. /\ k = 0 => x(k + 1) = x(1)
      /\ k = 1 => x(k + 1) = x(2)
      /\ k = 2 => x(k + 1) = x(3)
      /\ k = 3 => x(k + 1) = x(4)
      /\ k = 4 => x(k + 1) = x(5)
      /\ k = 5 => x(k + 1) = x(6)
      /\ k = 6 => x(k + 1) = x(7)
      /\ k = 7 => x(k + 1) = x(8)
      /\ k = 8 => x(k + 1) = x(9)
  BY <1>2, Zenon
<1>5. PICK s1 \in Nat, s2 \in Nat, s3 \in Nat, s4 \in Nat, s5 \in Nat,
           s6 \in Nat, s7 \in Nat, s8 \in Nat, s9 \in Nat, y \in Nat :
        /\ s1 = x(1) /\ s2 = x(2) /\ s3 = x(3) /\ s4 = x(4) /\ s5 = x(5)
        /\ s6 = x(6) /\ s7 = x(7) /\ s8 = x(8) /\ s9 = x(9) /\ y = x(k + 1)
  BY <1>3, Zenon
<1> DEFINE T(j) == Sum(j, s1, s2, s3, s4, s5, s6, s7, s8, s9)
<1>6. T(k) \in Nat /\ T(k + 1) \in Nat /\ T(k) <= y + T(k + 1)
  <2>1. /\ (k = 0 => y = s1) /\ (k = 1 => y = s2) /\ (k = 2 => y = s3)
        /\ (k = 3 => y = s4) /\ (k = 4 => y = s5) /\ (k = 5 => y = s6)
        /\ (k = 6 => y = s7) /\ (k = 7 => y = s8) /\ (k = 8 => y = s9)
    BY <1>4, <1>5, Zenon
  <2> HIDE DEF x
  <2> USE DEF Sum
  <2>2. k \in {0, 1, 2, 3, 4, 5, 6, 7, 8} \/ k \in 9 .. 12 OBVIOUS
  <2>3. CASE k \in 9 .. 12 BY <2>3
  <2>4. CASE k = 0 BY <2>1, <2>4
  <2>5. CASE k = 1 BY <2>1, <2>5
  <2>6. CASE k = 2 BY <2>1, <2>6
  <2>7. CASE k = 3 BY <2>1, <2>7
  <2>8. CASE k = 4 BY <2>1, <2>8
  <2>9. CASE k = 5 BY <2>1, <2>9
  <2>10. CASE k = 6 BY <2>1, <2>10
  <2>11. CASE k = 7 BY <2>1, <2>11
  <2>12. CASE k = 8 BY <2>1, <2>12
  <2> HIDE DEF T
  <2> QED BY <2>2, <2>3, <2>4, <2>5, <2>6, <2>7, <2>8, <2>9, <2>10, <2>11,
             <2>12
<1>7. Owed(k) = T(k) /\ Owed(k + 1) = T(k + 1) BY <1>5, Zenon DEF Owed
<1>8. y = SizeOf(NewCalls[k + 1]) BY <1>5
<1> HIDE DEF x, T
<1> QED BY <1>6, <1>7, <1>8, Zenon

LEMMA NothingOwed == Owed(13) = 0
BY DEF Owed, Sum

-----------------------------------------------------------------------------
(* The inductive invariant of the file.                                      *)
(*                                                                           *)
(* While a header or a cluster is written the file is only appended to.      *)
(* Anything else happens on the way of an update of the duration, which      *)
(* relies on the header being in the file by then: that is why the bytes a   *)
(* header still owes are counted.                                            *)

Calls == Appends \cup {Seek("end"), Seek("duration"), Seek("remembered")}

FileTypes ==
  /\ buffer \in Seq(Nat) /\ disk \in Seq(Nat) /\ calls \in Seq(Calls)
  /\ position \in Nat /\ end \in Nat /\ maximum_end_us \in Nat
  /\ written \in Seq(Events)
  /\ phase \in {"new", "open", "drop", "exit"}

Appending == position = Len(disk) /\ calls \in Seq(Appends)

Total == Len(disk) + Len(buffer)

(* What new has left is the end of NewCalls, its first write perhaps in part. *)
Creating ==
  \E k \in 1 .. 13 :
    /\ Len(calls) = 14 - k
    /\ \A i \in 2 .. 14 - k : calls[i] = NewCalls[k - 1 + i]
    /\ \/ calls[1] = NewCalls[k]
       \/ calls[1] \in Writes /\ NewCalls[k].op = "write_all"
    /\ Total + SizeOf(calls[1]) + Owed(k) >= Owed(0)

(* The last n calls of an update of the duration are left. *)
Left(n) == Len(calls) = n /\ \A i \in 1 .. n : calls[i] = FlushCalls[6 - n + i]

HeaderStored == Len(disk) >= DurationEnd

OverDuration == position = DurationOffset /\ HeaderStored /\ Len(buffer) = 8

Updating ==
  \/ Left(6) /\ position = Len(disk)
  \/ /\ HeaderStored /\ end = Len(disk)
     /\ \/ Left(5) /\ buffer = << >> /\ position = Len(disk)
        \/ Left(4) /\ buffer = << >> /\ position = DurationOffset
        \/ Left(3) /\ (buffer = << >> \/ OverDuration)

PhaseNew == phase = "new" => Appending /\ Creating
PhaseOpen == phase = "open" => /\ Total >= DurationEnd
                               /\ Appending \/ Updating
PhaseDrop ==
  phase = "drop" => /\ calls = << >>
                    /\ position = Len(disk) \/ buffer = << >> \/ OverDuration
PhaseExit == phase = "exit" => calls = << >>

FileInv == FileTypes /\ PhaseNew /\ PhaseOpen /\ PhaseDrop /\ PhaseExit

(* A step of the file. *)
Rewrites ==
  /\ Len(disk') >= Len(disk)
  /\ \A i \in 1 .. Len(disk) :
       \/ disk'[i] = disk[i]
       \/ i \in DurationOffset + 1 .. DurationOffset + 8

-----------------------------------------------------------------------------
(* Three sequences one after the other. *)
Three(s, a, b, c) ==
  /\ s \in Seq(Nat) /\ Len(s) = Len(a) + Len(b) + Len(c)
  /\ \A i \in 1 .. Len(a) : s[i] = a[i]
  /\ \A i \in 1 .. Len(b) : s[Len(a) + i] = b[i]
  /\ \A i \in 1 .. Len(c) : s[Len(a) + Len(b) + i] = c[i]

LEMMA JoinThree ==
  ASSUME NEW a \in Seq(Nat), NEW b \in Seq(Nat), NEW c \in Seq(Nat)
  PROVE  Three(a \o b \o c, a, b, c)
<1>1. PICK d \in Seq(Nat) : /\ d = a \o b /\ Len(d) = Len(a) + Len(b)
                           /\ \A i \in 1 .. Len(a) : d[i] = a[i]
                           /\ \A j \in 1 .. Len(b) : d[Len(a) + j] = b[j]
  <2>1. /\ a \o b \in Seq(Nat) /\ Len(a \o b) = Len(a) + Len(b)
        /\ \A i \in 1 .. Len(a) : (a \o b)[i] = a[i]
        /\ \A i \in 1 .. Len(b) : (a \o b)[Len(a) + i] = b[i]
    OBVIOUS
  <2> QED BY <2>1, Zenon
<1>2. /\ d \o c \in Seq(Nat) /\ Len(d \o c) = Len(d) + Len(c)
      /\ \A i \in 1 .. Len(d) + Len(c) :
           (d \o c)[i] = IF i <= Len(d) THEN d[i] ELSE c[i - Len(d)]
  BY ConcatProperties
<1>3. ASSUME NEW i \in 1 .. Len(a) PROVE (d \o c)[i] = a[i]
  BY <1>1, <1>2
<1>4. ASSUME NEW i \in 1 .. Len(c)
      PROVE  (d \o c)[Len(a) + Len(b) + i] = c[i]
  <2>1. /\ Len(d) + i \in 1 .. Len(d) + Len(c) /\ ~(Len(d) + i <= Len(d))
        /\ Len(d) + i - Len(d) = i
    BY <1>1
  <2>2. (d \o c)[Len(d) + i] = c[Len(d) + i - Len(d)]
    BY <1>2, <2>1
  <2>3. (d \o c)[Len(d) + i] = c[i] BY <2>1, <2>2, Zenon
  <2> QED BY <1>1, <2>3, Zenon
<1>5. ASSUME NEW i \in 1 .. Len(b) PROVE (d \o c)[Len(a) + i] = b[i]
  <2>1. Len(a) + i \in 1 .. Len(d) + Len(c) /\ Len(a) + i <= Len(d)
    BY <1>1
  <2>2. (d \o c)[Len(a) + i] = d[Len(a) + i] BY <1>2, <2>1
  <2>3. d[Len(a) + i] = b[i] BY <1>1
  <2> QED BY <2>2, <2>3, Zenon
<1> QED BY <1>1, <1>2, <1>3, <1>4, <1>5 DEF Three

(* What comes after the first k bytes. *)
LEMMA RestOf ==
  ASSUME NEW s \in Seq(Nat), NEW k \in Nat
  PROVE  /\ SubSeq(s, k + 1, Len(s)) \in Seq(Nat)
         /\ Len(SubSeq(s, k + 1, Len(s))) =
              IF k >= Len(s) THEN 0 ELSE Len(s) - k
         /\ \A i \in 1 .. Len(SubSeq(s, k + 1, Len(s))) :
              SubSeq(s, k + 1, Len(s))[i] = s[k + i]
OBVIOUS


(* The kernel's write. *)
LEMMA OverlaidIs ==
  ASSUME disk \in Seq(Nat), position \in 0 .. Len(disk), NEW b \in Seq(Nat)
  PROVE  /\ Overlaid(b) \in Seq(Nat)
         /\ Len(Overlaid(b)) = IF position + Len(b) >= Len(disk)
                               THEN position + Len(b) ELSE Len(disk)
         /\ \A i \in 1 .. Len(disk) : \/ Overlaid(b)[i] = disk[i]
                                      \/ i \in position + 1 .. position + Len(b)
         /\ \A i \in 1 .. Len(b) : Overlaid(b)[position + i] = b[i]
<1> DEFINE low == SubSeq(disk, 1, position)
           high == SubSeq(disk, position + Len(b) + 1, Len(disk))
           hole == [i \in 1 .. position - Len(disk) |-> 0]
<1>1. Min({position, Len(disk)}) = position
  <2>1. /\ position \in {position, Len(disk)}
        /\ \A y \in {position, Len(disk)} : position <= y
        /\ \A x \in {position, Len(disk)} :
             (\A y \in {position, Len(disk)} : x <= y) => x = position
    OBVIOUS
  <2>2. Min({position, Len(disk)}) =
          CHOOSE x \in {position, Len(disk)} :
            \A y \in {position, Len(disk)} : x <= y
    BY Zenon DEF Min
  <2> QED BY <2>1, <2>2, Zenon
<1>2. hole = << >> OBVIOUS
<1>3. Overlaid(b) = low \o << >> \o b \o high BY <1>1, <1>2, Zenon DEF Overlaid
<1>4. low \in Seq(Nat) /\ Len(low) = position
      /\ \A i \in 1 .. position : low[i] = disk[i]
  OBVIOUS
<1>5. /\ high \in Seq(Nat)
      /\ Len(high) = IF position + Len(b) >= Len(disk) THEN 0
                     ELSE Len(disk) - position - Len(b)
      /\ \A i \in 1 .. Len(high) : high[i] = disk[position + Len(b) + i]
  <2>1. position + Len(b) \in Nat /\ Len(disk) \in Nat /\ Len(b) \in Nat
    OBVIOUS
  <2>2. Len(disk) - (position + Len(b)) = Len(disk) - position - Len(b)
    BY <2>1
  <2> QED BY <2>1, <2>2, RestOf, Zenon
<1> HIDE DEF low, high, hole
<1>6. Overlaid(b) = low \o b \o high BY <1>3, <1>4
<1>7. /\ Overlaid(b) \in Seq(Nat)
      /\ Len(Overlaid(b)) = position + Len(b) + Len(high)
      /\ \A i \in 1 .. position : Overlaid(b)[i] = low[i]
      /\ \A i \in 1 .. Len(high) : Overlaid(b)[position + Len(b) + i] = high[i]
      /\ \A i \in 1 .. Len(b) : Overlaid(b)[position + i] = b[i]
  <2> DEFINE o == low \o b \o high
  <2>1. /\ o \in Seq(Nat) /\ Len(o) = Len(low) + Len(b) + Len(high)
        /\ \A i \in 1 .. Len(low) : o[i] = low[i]
        /\ \A i \in 1 .. Len(high) : o[Len(low) + Len(b) + i] = high[i]
        /\ \A i \in 1 .. Len(b) : o[Len(low) + i] = b[i]
    <3>1. Three(o, low, b, high) BY <1>4, <1>5, JoinThree, Zenon
    <3> HIDE DEF o
    <3> QED BY <3>1, Zenon DEF Three
  <2> HIDE DEF o
  <2> QED BY <1>4, <1>6, <2>1, Zenon DEF o
<1>8. PICK p \in Nat, n \in Nat, m \in Nat :
        p = position /\ n = Len(b) /\ m = Len(disk) /\ p <= m
  <2>1. /\ position \in Nat /\ Len(b) \in Nat /\ Len(disk) \in Nat
        /\ position <= Len(disk)
    OBVIOUS
  <2> QED BY <2>1, Zenon
<1>9. ASSUME NEW i \in 1 .. m
      PROVE  Overlaid(b)[i] = disk[i] \/ i \in p + 1 .. p + n
  <2>1. CASE i <= p
    <3>1. i \in 1 .. p BY <2>1
    <3> QED BY <1>4, <1>7, <1>8, <3>1, Zenon
  <2>2. CASE i > p + n
    <3>1. /\ i - p - n \in 1 .. m - p - n /\ p + n + (i - p - n) = i
          /\ ~(p + n >= m)
      BY <2>2
    <3>2. Len(high) = m - p - n BY <1>5, <1>8, <3>1
    <3>3. /\ Overlaid(b)[p + n + (i - p - n)] = high[i - p - n]
          /\ high[i - p - n] = disk[p + n + (i - p - n)]
      BY <1>5, <1>7, <1>8, <3>1, <3>2, Zenon
    <3> QED BY <3>1, <3>3, Zenon
  <2> QED BY <2>1, <2>2
<1>10. Len(high) = IF p + n >= m THEN 0 ELSE m - p - n BY <1>5, <1>8, Zenon
<1>11. p + n + Len(high) = IF p + n >= m THEN p + n ELSE m BY <1>10
<1> QED BY <1>7, <1>8, <1>9, <1>11, Zenon

(* At the end of the file it grows; over the Duration nothing else changes. *)
LEMMA StoreAppends ==
  ASSUME FileTypes, position = Len(disk), NEW b \in Seq(Nat), Store(b)
  PROVE  /\ Rewrites /\ disk' \in Seq(Nat) /\ position' \in Nat
         /\ Len(disk') = Len(disk) + Len(b) /\ position' = Len(disk')
         /\ \A i \in 1 .. Len(disk) : disk'[i] = disk[i]
         /\ \A i \in 1 .. Len(b) : disk'[Len(disk) + i] = b[i]
<1>1. disk \in Seq(Nat) /\ position \in 0 .. Len(disk) /\ Len(disk) \in Nat
      /\ Len(b) \in Nat /\ position + Len(b) >= Len(disk)
  BY DEF FileTypes
<1>2. /\ Overlaid(b) \in Seq(Nat)
      /\ Len(Overlaid(b)) = position + Len(b)
      /\ \A i \in 1 .. Len(disk) : \/ Overlaid(b)[i] = disk[i]
                                   \/ i \in position + 1 .. position + Len(b)
      /\ \A i \in 1 .. Len(b) : Overlaid(b)[position + i] = b[i]
  BY <1>1, OverlaidIs
<1>3. disk' = Overlaid(b) /\ position' = position + Len(b) BY DEF Store
<1>4. \A i \in 1 .. Len(disk) : i \notin position + 1 .. position + Len(b)
  BY <1>1
<1>5. \A i \in 1 .. Len(disk) : disk'[i] = disk[i]
  BY <1>2, <1>3, <1>4, Zenon
<1>6. Len(disk') = Len(disk) + Len(b) /\ position' = Len(disk')
  BY <1>2, <1>3, Zenon
<1>7. Len(disk) + Len(b) >= Len(disk) /\ Len(disk) + Len(b) \in Nat BY <1>1
<1>8. \A i \in 1 .. Len(b) : disk'[Len(disk) + i] = b[i]
  BY <1>2, <1>3, Zenon
<1> QED BY <1>2, <1>3, <1>5, <1>6, <1>7, <1>8, Zenon DEF Rewrites

LEMMA StoreOver ==
  ASSUME FileTypes, position = DurationOffset, HeaderStored,
         NEW b \in Seq(Nat), Len(b) = 8, Store(b)
  PROVE  /\ Rewrites /\ disk' \in Seq(Nat) /\ position' \in Nat
         /\ Len(disk') = Len(disk)
         /\ \A i \in 1 .. 8 : disk'[DurationOffset + i] = b[i]
<1>1. disk \in Seq(Nat) /\ Len(disk) \in Nat /\ position \in Nat
  BY DEF FileTypes
<1>2. position + 8 <= Len(disk) BY <1>1 DEF HeaderStored, DurationEnd
<1>3. position \in 0 .. Len(disk) BY <1>1, <1>2
<1>4. /\ Overlaid(b) \in Seq(Nat)
      /\ Len(Overlaid(b)) = IF position + 8 >= Len(disk)
                            THEN position + 8 ELSE Len(disk)
      /\ \A i \in 1 .. Len(disk) : \/ Overlaid(b)[i] = disk[i]
                                   \/ i \in position + 1 .. position + 8
      /\ \A i \in 1 .. 8 : Overlaid(b)[position + i] = b[i]
  BY <1>1, <1>3, OverlaidIs
<1>5. disk' = Overlaid(b) /\ position' = position + 8 BY DEF Store
<1>6. Len(disk') = Len(disk) BY <1>1, <1>2, <1>4, <1>5
<1>7. Len(disk') >= Len(disk) /\ position' \in Nat BY <1>1, <1>5, <1>6
<1>8. \A i \in 1 .. 8 : disk'[DurationOffset + i] = b[i] BY <1>4, <1>5, Zenon
<1> QED BY <1>4, <1>5, <1>6, <1>7, <1>8, Zenon DEF Rewrites

(* What is taken of n bytes. *)
LEMMA TakenIs ==
  ASSUME FileTypes, NEW n \in Nat, NEW k \in Taken(n)
  PROVE  k \in 0 .. n /\ (position < Len(disk) => k = n)
<1>1. k = n \/ k = (n + 1) \div 2 BY DEF Taken
<1>2. (n + 1) \div 2 \in 0 .. n OBVIOUS
<1>3. position < Len(disk) => k = n BY DEF Taken
<1> QED BY <1>1, <1>2, <1>3

(* The front of a sequence and the rest of it. *)
LEMMA Cut ==
  ASSUME NEW s \in Seq(Nat), NEW k \in 0 .. Len(s)
  PROVE  /\ SubSeq(s, 1, k) \in Seq(Nat) /\ Len(SubSeq(s, 1, k)) = k
         /\ SubSeq(s, k + 1, Len(s)) \in Seq(Nat)
         /\ Len(SubSeq(s, k + 1, Len(s))) = Len(s) - k
OBVIOUS

(* The buffer goes to the file. *)
LEMMA DrainAppends ==
  ASSUME FileTypes, position = Len(disk), Drain
  PROVE  /\ Rewrites /\ disk' \in Seq(Nat) /\ position' \in Nat
         /\ buffer' \in Seq(Nat) /\ position' = Len(disk')
         /\ Len(disk') + Len(buffer') = Len(disk) + Len(buffer)
<1>1. buffer \in Seq(Nat) /\ Len(buffer) \in Nat BY DEF FileTypes
<1>2. PICK k \in Taken(Len(buffer)) :
        /\ Store(SubSeq(buffer, 1, k))
        /\ buffer' = SubSeq(buffer, k + 1, Len(buffer))
  BY Zenon DEF Drain
<1>3. k \in 0 .. Len(buffer) BY <1>1, TakenIs, Zenon
<1>4. /\ SubSeq(buffer, 1, k) \in Seq(Nat) /\ Len(SubSeq(buffer, 1, k)) = k
      /\ buffer' \in Seq(Nat) /\ Len(buffer') = Len(buffer) - k
  BY <1>1, <1>2, <1>3, Cut
<1>5. /\ Rewrites /\ disk' \in Seq(Nat) /\ position' \in Nat
      /\ Len(disk') = Len(disk) + k /\ position' = Len(disk')
  BY <1>2, <1>4, StoreAppends, Zenon
<1>6. Len(disk) \in Nat BY DEF FileTypes
<1>7. Len(disk') + Len(buffer') = Len(disk) + Len(buffer)
  BY <1>1, <1>3, <1>4, <1>5, <1>6
<1> QED BY <1>4, <1>5, <1>7, Zenon

LEMMA DrainOver ==
  ASSUME FileTypes, OverDuration, Drain
  PROVE  /\ Rewrites /\ disk' \in Seq(Nat) /\ position' \in Nat
         /\ buffer' = << >> /\ Len(disk') = Len(disk)
         /\ \A i \in 1 .. 8 : disk'[DurationOffset + i] = buffer[i]
<1>1. buffer \in Seq(Nat) /\ Len(buffer) = 8 /\ Len(disk) \in Nat
  BY DEF FileTypes, OverDuration
<1>2. PICK k \in Taken(Len(buffer)) :
        /\ Store(SubSeq(buffer, 1, k))
        /\ buffer' = SubSeq(buffer, k + 1, Len(buffer))
  BY Zenon DEF Drain
<1>3. position < Len(disk)
  BY <1>1 DEF FileTypes, OverDuration, HeaderStored, DurationEnd
<1>4. k = 8
  <2>1. 8 \in Nat OBVIOUS
  <2> QED BY <1>1, <1>2, <1>3, <2>1, TakenIs, Zenon
<1>5. /\ SubSeq(buffer, 1, k) \in Seq(Nat) /\ Len(SubSeq(buffer, 1, k)) = 8
      /\ buffer' = << >>
  <2>1. k \in 0 .. Len(buffer) /\ Len(buffer) - k = 0 BY <1>1, <1>4
  <2>2. /\ SubSeq(buffer, 1, k) \in Seq(Nat) /\ Len(SubSeq(buffer, 1, k)) = k
        /\ buffer' \in Seq(Nat) /\ Len(buffer') = Len(buffer) - k
    BY <1>1, <1>2, <2>1, Cut
  <2>3. \A s \in Seq(Nat) : Len(s) = 0 => s = << >> OBVIOUS
  <2> QED BY <1>4, <2>1, <2>2, <2>3, Zenon
<1>6. SubSeq(buffer, 1, k) = buffer
  <2>1. \A s \in Seq(Nat) : SubSeq(s, 1, Len(s)) = s OBVIOUS
  <2> QED BY <1>1, <1>4, <2>1, Zenon
<1> QED BY <1>2, <1>5, <1>6, StoreOver, Zenon DEF OverDuration

(* A write that goes past the buffer. *)
LEMMA DirectAppends ==
  ASSUME FileTypes, position = Len(disk), Call \in Writes, Direct
  PROVE  /\ Rewrites /\ disk' \in Seq(Nat) /\ position' \in Nat
         /\ position' = Len(disk') /\ buffer' = buffer
         /\ \/ /\ calls' = Tail(calls)
               /\ Len(disk') = Len(disk) + SizeOf(Call)
            \/ \E w \in Writes :
                 /\ calls' = << w >> \o Tail(calls)
                 /\ Len(disk') + SizeOf(w) = Len(disk) + SizeOf(Call)
<1> DEFINE b == Call.bytes
<1>1. /\ Call = [op |-> "write_all", bytes |-> b, direct |-> Call.direct]
      /\ b \in Seq(Nat) /\ SizeOf(Call) = Len(b)
  BY DEF Writes, SizeOf
<1>2. PICK k \in Taken(Len(b)) :
        /\ Store(SubSeq(b, 1, k))
        /\ calls' = IF k = Len(b) THEN Tail(calls)
                    ELSE << Rest(b, k) >> \o Tail(calls)
        /\ buffer' = buffer
  BY Zenon DEF Direct
<1> DEFINE w == Rest(b, k)
<1> HIDE DEF b
<1>3. Len(b) \in Nat BY <1>1
<1>4. k \in 0 .. Len(b) BY <1>3, TakenIs, Zenon
<1>5. /\ SubSeq(b, 1, k) \in Seq(Nat) /\ Len(SubSeq(b, 1, k)) = k
      /\ SubSeq(b, k + 1, Len(b)) \in Seq(Nat)
      /\ Len(SubSeq(b, k + 1, Len(b))) = Len(b) - k
  BY <1>1, <1>4, Cut
<1>6. w \in Writes /\ SizeOf(w) = Len(b) - k
  BY <1>5 DEF Writes, SizeOf, Rest
<1>7. /\ Rewrites /\ disk' \in Seq(Nat) /\ position' \in Nat
      /\ Len(disk') = Len(disk) + k /\ position' = Len(disk')
  BY <1>2, <1>5, StoreAppends, Zenon
<1>8. Len(disk) \in Nat BY DEF FileTypes
<1>9. CASE k = Len(b)
  <2>1. calls' = Tail(calls) /\ Len(disk') = Len(disk) + SizeOf(Call)
    BY <1>1, <1>2, <1>7, <1>9, Zenon
  <2> QED BY <1>2, <1>7, <2>1, Zenon
<1>10. CASE k # Len(b)
  <2>1. calls' = << w >> \o Tail(calls) BY <1>2, <1>10, Zenon
  <2>2. Len(disk) + k + (Len(b) - k) = Len(disk) + Len(b)
    BY <1>3, <1>4, <1>8
  <2>3. Len(disk') + SizeOf(w) = Len(disk) + SizeOf(Call)
    BY <1>1, <1>6, <1>7, <2>2, Zenon
  <2> HIDE DEF w
  <2> QED BY <1>2, <1>6, <1>7, <2>1, <2>3, Zenon
<1> QED BY <1>9, <1>10

LEMMA DirectOver ==
  ASSUME FileTypes, position = DurationOffset, HeaderStored, Call \in Writes,
         Len(Call.bytes) = 8, Direct
  PROVE  /\ Rewrites /\ disk' \in Seq(Nat) /\ position' \in Nat
         /\ calls' = Tail(calls) /\ Len(disk') = Len(disk)
         /\ buffer' = buffer
         /\ \A i \in 1 .. 8 : disk'[DurationOffset + i] = Call.bytes[i]
<1> DEFINE b == Call.bytes
<1>1. b \in Seq(Nat) /\ Len(b) = 8 BY DEF Writes
<1>2. PICK k \in Taken(Len(b)) :
        /\ Store(SubSeq(b, 1, k))
        /\ k = Len(b) => calls' = Tail(calls)
        /\ buffer' = buffer
  BY Zenon DEF Direct
<1> HIDE DEF b
<1>3. position < Len(disk)
  BY DEF FileTypes, HeaderStored, DurationEnd
<1>4. k = 8
  <2>1. 8 \in Nat OBVIOUS
  <2> QED BY <1>1, <1>2, <1>3, <2>1, TakenIs, Zenon
<1>5. SubSeq(b, 1, k) \in Seq(Nat) /\ Len(SubSeq(b, 1, k)) = 8
  <2>1. k \in 0 .. Len(b) BY <1>1, <1>4
  <2> QED BY <1>1, <1>4, <2>1, Cut
<1>6. SubSeq(b, 1, k) = b
  <2>1. \A s \in Seq(Nat) : SubSeq(s, 1, Len(s)) = s OBVIOUS
  <2> QED BY <1>1, <1>4, <2>1, Zenon
<1>7. \A i \in 1 .. 8 : disk'[DurationOffset + i] = b[i]
  BY <1>1, <1>2, <1>5, <1>6, StoreOver, Zenon
<1> QED BY <1>1, <1>2, <1>4, <1>5, <1>7, StoreOver, Zenon DEF b

(* What a call is by its name. *)
LEMMA AppendsAre ==
  ASSUME NEW c \in Appends
  PROVE  /\ c.op = "write_all" <=> c \in Writes
         /\ c.op = "seek" => c = Seek("current")
         /\ c.op = "return" => c.end \in Nat
         /\ c \in Writes => SizeOf(c) = Len(c.bytes) /\ c.bytes \in Seq(Nat)
         /\ c.op # "write_all" => SizeOf(c) = 0
         /\ SizeOf(c) \in Nat
<1>1. CASE c \in Writes BY <1>1 DEF Writes, SizeOf
<1>2. CASE c = Seek("current") BY <1>2 DEF Writes, Seek, SizeOf
<1>3. CASE c = Flush BY <1>3 DEF Writes, Flush, SizeOf
<1>4. CASE c \in [op : {"return"}, end : Nat] BY <1>4 DEF Writes, SizeOf
<1> QED BY <1>1, <1>2, <1>3, <1>4 DEF Appends

(* The first call and the rest, of a method that is under way. *)
LEMMA FirstCall ==
  ASSUME NEW S, calls \in Seq(S), calls # << >>
  PROVE  /\ Call = calls[1] /\ Call \in S /\ Tail(calls) \in Seq(S)
         /\ Len(calls) \in Nat \ {0} /\ Len(Tail(calls)) = Len(calls) - 1
         /\ \A i \in 1 .. Len(calls) - 1 : Tail(calls)[i] = calls[i + 1]
BY DEF Call

LEMMA Prepended ==
  ASSUME NEW S, NEW s \in Seq(S), NEW w \in S
  PROVE  /\ << w >> \o s \in Seq(S) /\ Len(<< w >> \o s) = Len(s) + 1
         /\ (<< w >> \o s)[1] = w
         /\ \A i \in 2 .. Len(s) + 1 : (<< w >> \o s)[i] = s[i - 1]
OBVIOUS

LEMMA AppendsAreCalls == Appends \subseteq Calls /\ Seq(Appends) \subseteq Seq(Calls)
<1>1. Appends \subseteq Calls BY DEF Calls
<1> QED BY <1>1

(* A step of a method that appends. *)
LEMMA AppendStep ==
  ASSUME FileTypes, Appending, calls # << >>,
         Copy \/ Drain \/ Direct \/ SeekDone \/ FlushDone
  PROVE  /\ FileTypes' /\ Appending' /\ Rewrites /\ phase' = phase
         /\ Total' >= Total
         /\ \/ calls' = calls /\ Total' = Total
            \/ /\ calls' = Tail(calls) /\ Call.op # "return"
               /\ Total' = Total + SizeOf(Call)
            \/ \E w \in Writes :
                 /\ calls' = << w >> \o Tail(calls) /\ Call \in Writes
                 /\ Total' + SizeOf(w) = Total + SizeOf(Call)
<1> DEFINE R == /\ calls' = Tail(calls) /\ Call.op # "return"
                /\ Total' = Total + SizeOf(Call)
<1>1. /\ calls \in Seq(Appends) /\ position = Len(disk)
      /\ disk \in Seq(Nat) /\ buffer \in Seq(Nat)
      /\ Len(disk) \in Nat /\ Len(buffer) \in Nat /\ position \in Nat
      /\ end \in Nat
  BY DEF FileTypes, Appending
<1>2. Call \in Appends /\ Tail(calls) \in Seq(Appends) BY <1>1, FirstCall
<1>3. \A s \in Seq(Appends) : s \in Seq(Calls) BY AppendsAreCalls
<1>4. ASSUME disk' = disk PROVE Rewrites
  <2>1. Len(disk) >= Len(disk) BY <1>1
  <2> QED BY <1>4, <2>1, Zenon DEF Rewrites
<1> DEFINE Grows == Total' >= Total
<1> HIDE DEF Grows
<1>5. /\ Total' = Total => Grows
      /\ Total' = Total + SizeOf(Call) => Grows
      /\ Rewrites /\ disk' \in Seq(Nat) /\ buffer' = buffer => Grows
  <2>1. Total \in Nat /\ SizeOf(Call) \in Nat
    <3>1. Total \in Nat BY <1>1 DEF Total
    <3> QED BY <1>2, <3>1, AppendsAre, Zenon
  <2>2. /\ Total >= Total /\ Total + SizeOf(Call) >= Total BY <2>1
  <2>3. ASSUME Rewrites, disk' \in Seq(Nat), buffer' = buffer PROVE Grows
    <3>1. Len(disk') \in Nat /\ Len(disk') >= Len(disk)
      BY <2>3 DEF Rewrites
    <3>2. Len(disk') + Len(buffer) >= Len(disk) + Len(buffer)
      BY <1>1, <3>1
    <3> QED BY <2>3, <3>2, Zenon DEF Total, Grows
  <2> QED BY <2>2, <2>3, Zenon DEF Grows
<1>6. CASE Copy
  <2>1. /\ buffer' = buffer \o Call.bytes /\ calls' = Tail(calls)
        /\ UNCHANGED << phase, end, disk, position, clientVars >>
        /\ Call.op = "write_all"
    BY <1>6, Zenon DEF Copy, Copies
  <2>2. /\ Call.bytes \in Seq(Nat) /\ SizeOf(Call) = Len(Call.bytes)
    BY <1>2, <2>1, AppendsAre, Zenon
  <2>3. buffer' \in Seq(Nat) /\ Len(buffer') = Len(buffer) + SizeOf(Call)
    BY <1>1, <2>1, <2>2
  <2>4. FileTypes'
    BY <1>2, <1>3, <2>1, <2>3, Zenon DEF FileTypes, clientVars
  <2>5. Appending' BY <1>1, <1>2, <2>1, Zenon DEF Appending
  <2>6. Total' = Total + SizeOf(Call)
    <3>1. SizeOf(Call) \in Nat BY <1>2, AppendsAre, Zenon
    <3>2. \A x, y, z \in Nat : x + (y + z) = x + y + z OBVIOUS
    <3>3. Len(disk) + (Len(buffer) + SizeOf(Call))
            = Len(disk) + Len(buffer) + SizeOf(Call)
      BY <1>1, <3>1, <3>2, ZenonT(30)
    <3>4. Total' = Len(disk) + (Len(buffer) + SizeOf(Call))
      BY <2>1, <2>3, Zenon DEF Total
    <3> QED BY <3>3, <3>4, Zenon DEF Total
  <2>7. R BY <2>1, <2>6
  <2> QED BY <1>4, <1>5, <2>1, <2>4, <2>5, <2>7, Zenon DEF Grows
<1>7. CASE Drain
  <2>1. /\ Rewrites /\ disk' \in Seq(Nat) /\ position' \in Nat
        /\ buffer' \in Seq(Nat) /\ position' = Len(disk') /\ Total' = Total
    BY <1>1, <1>7, DrainAppends, Zenon DEF Total
  <2>2. UNCHANGED << phase, calls, end, clientVars >> BY <1>7 DEF Drain
  <2>3. FileTypes' BY <2>1, <2>2, Zenon DEF FileTypes, clientVars
  <2>4. Appending' BY <1>1, <2>1, <2>2, Zenon DEF Appending
  <2> QED BY <1>5, <2>1, <2>2, <2>3, <2>4, Zenon DEF Grows
<1>8. CASE Direct
  <2>1. /\ UNCHANGED << phase, end, buffer, clientVars >>
        /\ Call.op = "write_all"
    BY <1>8, Zenon DEF Direct, Directs
  <2>2. Call \in Writes BY <1>2, <2>1, AppendsAre, Zenon
  <2>3. /\ Rewrites /\ disk' \in Seq(Nat) /\ position' \in Nat
        /\ position' = Len(disk') /\ buffer' = buffer
        /\ \/ /\ calls' = Tail(calls)
              /\ Len(disk') = Len(disk) + SizeOf(Call)
           \/ \E w \in Writes :
                /\ calls' = << w >> \o Tail(calls)
                /\ Len(disk') + SizeOf(w) = Len(disk) + SizeOf(Call)
    BY <1>1, <1>8, <2>2, DirectAppends, Zenon
  <2>4. Writes \subseteq Appends BY DEF Appends
  <2>5. calls' \in Seq(Appends)
    <3>1. \A w \in Writes : << w >> \o Tail(calls) \in Seq(Appends)
      BY <1>2, <2>4, Prepended
    <3> QED BY <1>2, <2>3, <3>1, Zenon
  <2>6. FileTypes' /\ Appending'
    BY <1>1, <1>3, <2>1, <2>3, <2>5, Zenon
       DEF FileTypes, Appending, clientVars
  <2>7. \/ R
        \/ \E w \in Writes :
             /\ calls' = << w >> \o Tail(calls) /\ Call \in Writes
             /\ Total' + SizeOf(w) = Total + SizeOf(Call)
    <3>1. SizeOf(Call) \in Nat /\ Len(disk') \in Nat
      BY <1>2, <2>3, AppendsAre
    <3>2. \A w \in Writes : SizeOf(w) \in Nat BY <2>4, AppendsAre, Zenon
    <3>3. Total' = Len(disk') + Len(buffer) BY <2>1, Zenon DEF Total
    <3>4. CASE calls' = Tail(calls) /\ Len(disk') = Len(disk) + SizeOf(Call)
      <4>1. Total' = Total + SizeOf(Call)
        <5>1. \A d, b, s \in Nat : d + s + b = d + b + s OBVIOUS
        <5>2. Len(disk) + SizeOf(Call) + Len(buffer)
                = Len(disk) + Len(buffer) + SizeOf(Call)
          BY <1>1, <3>1, <5>1, Zenon
        <5> QED BY <3>3, <3>4, <5>2, Zenon DEF Total
      <4>2. Call.op # "return" BY <2>1
      <4> QED BY <3>4, <4>1, <4>2, Zenon
    <3>5. CASE \E w \in Writes :
                 /\ calls' = << w >> \o Tail(calls)
                 /\ Len(disk') + SizeOf(w) = Len(disk) + SizeOf(Call)
      <4>1. PICK w \in Writes :
              /\ calls' = << w >> \o Tail(calls)
              /\ Len(disk') + SizeOf(w) = Len(disk) + SizeOf(Call)
        BY <3>5
      <4>2. Total' + SizeOf(w) = Total + SizeOf(Call)
        <5>1. SizeOf(w) \in Nat BY <3>2
        <5>2. Len(disk') + Len(buffer) + SizeOf(w)
                = Len(disk) + Len(buffer) + SizeOf(Call)
          <6>1. PICK d \in Nat, b \in Nat, s \in Nat, e \in Nat, x \in Nat :
                  /\ d = Len(disk) /\ b = Len(buffer) /\ s = SizeOf(Call)
                  /\ e = Len(disk') /\ x = SizeOf(w)
            BY <1>1, <3>1, <5>1, Zenon
          <6>2. e + x = d + s BY <4>1, <6>1, Zenon
          <6>3. e + b + x = d + b + s BY <6>2
          <6> QED BY <6>1, <6>3, Zenon
        <5> QED BY <3>3, <5>2, Zenon DEF Total
      <4> QED BY <2>2, <4>1, <4>2, Zenon
    <3> QED BY <2>3, <3>4, <3>5, Zenon
  <2> QED BY <1>5, <2>1, <2>3, <2>6, <2>7, Zenon DEF Grows
<1>9. CASE SeekDone
  <2>1. /\ calls' = Tail(calls) /\ Call.op = "seek"
        /\ UNCHANGED << phase, buffer, disk, clientVars >>
    BY <1>9, Zenon DEF SeekDone
  <2>2. Call = Seek("current") /\ Call.op # "write_all"
    BY <1>2, <2>1, AppendsAre
  <2>3. Call.to = "current" BY <2>2 DEF Seek
  <2>4. position' = position /\ end' = end BY <1>9, <2>3 DEF SeekDone
  <2>5. FileTypes' /\ Appending'
    BY <1>1, <1>2, <1>3, <2>1, <2>4, Zenon
       DEF FileTypes, Appending, clientVars
  <2>6. R
    <3>1. SizeOf(Call) = 0 /\ Total' = Total
      BY <1>2, <2>1, <2>2, AppendsAre, Zenon DEF Total
    <3>2. Total + 0 = Total BY <1>1 DEF Total
    <3>3. Call.op # "return" BY <2>1
    <3> QED BY <2>1, <3>1, <3>2, <3>3, Zenon
  <2>7. Total' = Total BY <2>1, Zenon DEF Total
  <2> QED BY <1>4, <1>5, <2>1, <2>5, <2>6, <2>7, Zenon DEF Grows
<1>10. CASE FlushDone
  <2>1. /\ calls' = Tail(calls) /\ Call.op = "flush"
        /\ UNCHANGED << phase, fileVars, clientVars >>
    BY <1>10, Zenon DEF FlushDone
  <2>2. Call.op # "write_all" /\ Call.op # "return" BY <2>1
  <2>3. FileTypes' /\ Appending' /\ disk' = disk
    BY <1>1, <1>2, <1>3, <2>1, Zenon
       DEF FileTypes, Appending, fileVars, clientVars
  <2>4. R
    <3>1. SizeOf(Call) = 0 /\ Total' = Total
      BY <1>2, <2>1, <2>2, AppendsAre, Zenon DEF Total, fileVars
    <3>2. Total + 0 = Total BY <1>1 DEF Total
    <3> QED BY <2>1, <2>2, <3>1, <3>2, Zenon
  <2>5. Total' = Total BY <2>1, Zenon DEF Total, fileVars
  <2> QED BY <1>4, <1>5, <2>1, <2>3, <2>4, <2>5, Zenon DEF Grows
<1> QED BY <1>6, <1>7, <1>8, <1>9, <1>10, Zenon

(* new: a step, and its end, when the header up to the Duration is written. *)
LEMMA CreatingStep ==
  ASSUME FileTypes, Appending, Creating,
         Copy \/ Drain \/ Direct \/ SeekDone \/ FlushDone
  PROVE  Creating'
<1>1. PICK k \in 1 .. 13 :
        /\ Len(calls) = 14 - k
        /\ \A i \in 2 .. 14 - k : calls[i] = NewCalls[k - 1 + i]
        /\ \/ calls[1] = NewCalls[k]
           \/ calls[1] \in Writes /\ NewCalls[k].op = "write_all"
        /\ Total + SizeOf(calls[1]) + Owed(k) >= Owed(0)
  BY Zenon DEF Creating
<1>2. calls \in Seq(Appends) BY DEF Appending
<1>3. calls # << >> BY <1>1, <1>2
<1>4. /\ Call = calls[1] /\ Call \in Appends /\ Tail(calls) \in Seq(Appends)
      /\ Len(Tail(calls)) = Len(calls) - 1
      /\ \A i \in 1 .. Len(calls) - 1 : Tail(calls)[i] = calls[i + 1]
  BY <1>2, <1>3, FirstCall, Zenon
<1>5. \A w \in Writes : w.op = "write_all" BY DEF Writes
<1>6. CASE calls' = calls /\ Total' = Total
  <2>1. /\ Len(calls') = 14 - k
        /\ \A i \in 2 .. 14 - k : calls'[i] = NewCalls[k - 1 + i]
        /\ \/ calls'[1] = NewCalls[k]
           \/ calls'[1] \in Writes /\ NewCalls[k].op = "write_all"
        /\ Total' + SizeOf(calls'[1]) + Owed(k) >= Owed(0)
    BY <1>1, <1>6, Zenon
  <2> QED BY <2>1, Zenon DEF Creating, Owed, NewCalls
<1>7. CASE /\ calls' = Tail(calls) /\ Call.op # "return"
           /\ Total' = Total + SizeOf(Call)
  <2>1. k # 13
    <3>1. 13 \in 1 .. 13 /\ "write_all" # "return" OBVIOUS
    <3>2. NewCalls[13].op = "return" BY <3>1, HeaderCalls, Zenon
    <3> QED BY <1>1, <1>4, <1>7, <3>1, <3>2, Zenon
  <2>2. /\ k \in 1 .. 12 /\ k + 1 \in 1 .. 13 /\ 14 - k - 1 = 14 - (k + 1)
        /\ 1 \in 1 .. 14 - k - 1 /\ 1 + 1 \in 2 .. 14 - k
        /\ k - 1 + (1 + 1) = k + 1
    BY <2>1
  <2>3. Len(calls') = 14 - (k + 1) BY <1>1, <1>4, <1>7, <2>2, Zenon
  <2>4. ASSUME NEW i \in 2 .. 14 - (k + 1)
        PROVE  calls'[i] = NewCalls[(k + 1) - 1 + i]
    <3>1. /\ i \in 1 .. 14 - k - 1 /\ i + 1 \in 2 .. 14 - k
          /\ k - 1 + (i + 1) = (k + 1) - 1 + i
      BY <2>2
    <3>2. calls'[i] = calls[i + 1] BY <1>1, <1>4, <1>7, <3>1, Zenon
    <3>3. calls[i + 1] = NewCalls[k - 1 + (i + 1)] BY <1>1, <3>1, Zenon
    <3> QED BY <3>1, <3>2, <3>3, Zenon
  <2>5. calls'[1] = NewCalls[k + 1]
    <3>1. calls'[1] = calls[1 + 1] BY <1>1, <1>4, <1>7, <2>2, Zenon
    <3>2. calls[1 + 1] = NewCalls[k - 1 + (1 + 1)] BY <1>1, <2>2, Zenon
    <3> QED BY <2>2, <3>1, <3>2, Zenon
  <2>6. Total' + SizeOf(calls'[1]) + Owed(k + 1) >= Owed(0)
    <3>1. k \in 0 .. 12 /\ 0 \in 0 .. 12 BY <2>2
    <3>2. /\ Owed(k) \in Nat /\ Owed(k + 1) \in Nat /\ Owed(0) \in Nat
          /\ Owed(k) <= SizeOf(NewCalls[k + 1]) + Owed(k + 1)
      BY <3>1, OwedStep, Zenon
    <3>3. SizeOf(NewCalls[k + 1]) \in Nat BY <2>2, HeaderCalls, Zenon
    <3>4. SizeOf(Call) \in Nat BY <1>4, AppendsAre, Zenon
    <3>5. Total \in Nat BY DEF FileTypes, Total
    <3>6. PICK a \in Nat, b \in Nat, c \in Nat, d \in Nat, e \in Nat, s \in Nat :
            /\ a = Owed(k) /\ b = Owed(k + 1) /\ c = Owed(0) /\ d = Total
            /\ e = SizeOf(NewCalls[k + 1]) /\ s = SizeOf(Call)
      BY <3>2, <3>3, <3>4, <3>5, Zenon
    <3>7. a <= e + b BY <3>2, <3>6, Zenon
    <3>8. d + s + a >= c BY <1>1, <1>4, <3>6, Zenon
    <3>9. d + s + e + b >= c BY <3>7, <3>8
    <3> QED BY <1>7, <2>5, <3>6, <3>9, Zenon
  <2>7. \E j \in 1 .. 13 :
          /\ Len(calls') = 14 - j
          /\ \A i \in 2 .. 14 - j : calls'[i] = NewCalls[j - 1 + i]
          /\ \/ calls'[1] = NewCalls[j]
             \/ calls'[1] \in Writes /\ NewCalls[j].op = "write_all"
          /\ Total' + SizeOf(calls'[1]) + Owed(j) >= Owed(0)
    BY <2>2, <2>3, <2>4, <2>5, <2>6, Zenon
  <2> QED BY <2>7, Zenon DEF Creating, Owed, NewCalls
<1>8. ASSUME NEW w \in Writes,
             /\ calls' = << w >> \o Tail(calls) /\ Call \in Writes
             /\ Total' + SizeOf(w) = Total + SizeOf(Call)
      PROVE  Creating'
  <2>1. /\ Len(calls') = Len(Tail(calls)) + 1 /\ calls'[1] = w
        /\ \A i \in 2 .. Len(Tail(calls)) + 1 : calls'[i] = Tail(calls)[i - 1]
    <3>1. w \in Appends BY DEF Appends
    <3>2. /\ Len(<< w >> \o Tail(calls)) = Len(Tail(calls)) + 1
          /\ (<< w >> \o Tail(calls))[1] = w
          /\ \A i \in 2 .. Len(Tail(calls)) + 1 :
               (<< w >> \o Tail(calls))[i] = Tail(calls)[i - 1]
      BY <1>4, <3>1, Prepended
    <3> QED BY <1>8, <3>2, Zenon
  <2>2. /\ 14 - k - 1 + 1 = 14 - k
        /\ \A i \in 2 .. 14 - k : i - 1 \in 1 .. 14 - k - 1 /\ i - 1 + 1 = i
    BY <1>1
  <2>3. Len(calls') = 14 - k BY <1>1, <1>4, <2>1, <2>2, Zenon
  <2>4. ASSUME NEW i \in 2 .. 14 - k
        PROVE  calls'[i] = NewCalls[k - 1 + i]
    <3>1. calls'[i] = Tail(calls)[i - 1] BY <1>1, <1>4, <2>1, <2>2, Zenon
    <3>2. Tail(calls)[i - 1] = calls[i] BY <1>1, <1>4, <2>2, Zenon
    <3> QED BY <1>1, <3>1, <3>2, Zenon
  <2>5. calls'[1] \in Writes /\ NewCalls[k].op = "write_all"
    BY <1>1, <1>4, <1>5, <1>8, <2>1, Zenon
  <2>6. Total' + SizeOf(calls'[1]) + Owed(k) >= Owed(0)
    BY <1>1, <1>4, <1>8, <2>1, Zenon
  <2>7. \E j \in 1 .. 13 :
          /\ Len(calls') = 14 - j
          /\ \A i \in 2 .. 14 - j : calls'[i] = NewCalls[j - 1 + i]
          /\ \/ calls'[1] = NewCalls[j]
             \/ calls'[1] \in Writes /\ NewCalls[j].op = "write_all"
          /\ Total' + SizeOf(calls'[1]) + Owed(j) >= Owed(0)
    BY <2>3, <2>4, <2>5, <2>6, Zenon
  <2> QED BY <2>7, Zenon DEF Creating, Owed, NewCalls
<1> QED BY <1>3, <1>6, <1>7, <1>8, AppendStep, Zenon

LEMMA CreatingEnds ==
  ASSUME FileTypes, Appending, Creating, MethodReturns
  PROVE  Total >= DurationEnd
<1>1. PICK k \in 1 .. 13 :
        /\ Len(calls) = 14 - k
        /\ \/ calls[1] = NewCalls[k]
           \/ calls[1] \in Writes /\ NewCalls[k].op = "write_all"
        /\ Total + SizeOf(calls[1]) + Owed(k) >= Owed(0)
  BY Zenon DEF Creating
<1>2. calls # << >> /\ Call.op = "return" BY DEF MethodReturns
<1>3. calls \in Seq(Appends) BY DEF Appending
<1>4. Call = calls[1] /\ Call \in Appends BY <1>2, <1>3, FirstCall, Zenon
<1>5. Call \notin Writes /\ SizeOf(Call) = 0
  BY <1>2, <1>4, AppendsAre
<1>6. k = 13 BY <1>1, <1>2, <1>4, <1>5, HeaderCalls, Zenon
<1>7. Total \in Nat BY DEF FileTypes, Total
<1>8. Total + 0 + 0 = Total BY <1>7
<1>9. Total >= Owed(0) BY <1>1, <1>4, <1>5, <1>6, <1>8, NothingOwed, Zenon
<1>10. /\ Owed(0) \in Nat /\ DurationEnd \in Nat /\ Owed(0) >= DurationEnd
  <2>1. 0 \in 0 .. 12 /\ \A x \in Nat : x + 8 \in Nat OBVIOUS
  <2> QED BY <2>1, OwedStep, HeaderCalls, Zenon DEF DurationEnd
<1> QED BY <1>7, <1>9, <1>10

-----------------------------------------------------------------------------
(* write_duration. *)
LEMMA UpdateCalls ==
  ASSUME maximum_end_us \in Nat
  PROVE  /\ FlushCalls \in Seq(Calls) /\ Len(FlushCalls) = 6
         /\ FlushCalls[1] = Seek("end") /\ FlushCalls[2] = Seek("duration")
         /\ FlushCalls[3] \in Writes /\ Len(FlushCalls[3].bytes) = 8
         /\ FlushCalls[4] = Seek("remembered")
         /\ FlushCalls[5] = Flush /\ FlushCalls[6] = Return(0)
<1> DEFINE w == WriteAll(F64(maximum_end_us))
<1>1. F64(maximum_end_us) \in Seq(Nat) /\ Len(F64(maximum_end_us)) = 8
  BY F64Is
<1>2. w \in Writes /\ Len(w.bytes) = 8 BY <1>1 DEF Writes, WriteAll
<1>3. FlushCalls = << Seek("end"), Seek("duration"), w, Seek("remembered"),
                      Flush, Return(0) >>
  BY Zenon DEF FlushCalls
<1> HIDE DEF w
<1>4. /\ Seek("end") \in Calls /\ Seek("duration") \in Calls /\ w \in Calls
      /\ Seek("remembered") \in Calls /\ Flush \in Calls
      /\ Return(0) \in Calls
  BY <1>2 DEF Calls, Appends, Return
<1>5. \A a, b, c, d, e, f \in Calls : << a, b, c, d, e, f >> \in Seq(Calls)
  OBVIOUS
<1>6. FlushCalls \in Seq(Calls) BY <1>3, <1>4, <1>5, Zenon
<1>7. /\ FlushCalls[1] = Seek("end") /\ FlushCalls[2] = Seek("duration")
      /\ FlushCalls[3] = w /\ FlushCalls[4] = Seek("remembered")
      /\ FlushCalls[5] = Flush /\ FlushCalls[6] = Return(0)
      /\ Len(FlushCalls) = 6
  BY <1>3
<1> QED BY <1>2, <1>6, <1>7

LEMMA LeftCall ==
  ASSUME FileTypes, NEW n \in 3 .. 6, Left(n)
  PROVE  /\ calls # << >> /\ Call = FlushCalls[7 - n]
         /\ n = 6 => Call = Seek("end")
         /\ n = 5 => Call = Seek("duration")
         /\ n = 4 => Call \in Writes /\ Len(Call.bytes) = 8
         /\ n = 3 => Call = Seek("remembered")
<1>1. calls \in Seq(Calls) /\ Len(calls) = n /\ maximum_end_us \in Nat
  BY DEF FileTypes, Left
<1>2. calls # << >> BY <1>1
<1>3. 1 \in 1 .. n /\ 6 - n + 1 = 7 - n
      /\ 7 - 6 = 1 /\ 7 - 5 = 2 /\ 7 - 4 = 3 /\ 7 - 3 = 4
  OBVIOUS
<1>4. calls[1] = FlushCalls[7 - n] BY <1>3, Zenon DEF Left
<1>5. Call = FlushCalls[7 - n] BY <1>1, <1>2, <1>4, FirstCall, Zenon
<1> QED BY <1>1, <1>2, <1>3, <1>5, UpdateCalls, Zenon

LEMMA LeftStep ==
  ASSUME FileTypes, NEW n \in 3 .. 6, Left(n), calls' = Tail(calls),
         maximum_end_us' = maximum_end_us
  PROVE  Left(n - 1)' /\ calls' \in Seq(Calls)
<1>1. calls \in Seq(Calls) /\ Len(calls) = n BY DEF FileTypes, Left
<1>2. calls # << >> BY <1>1
<1>3. /\ Tail(calls) \in Seq(Calls) /\ Len(Tail(calls)) = n - 1
      /\ \A i \in 1 .. n - 1 : Tail(calls)[i] = calls[i + 1]
  BY <1>1, <1>2, FirstCall, Zenon
<1>4. ASSUME NEW i \in 1 .. n - 1
      PROVE  Tail(calls)[i] = FlushCalls[6 - (n - 1) + i]
  <2>1. i + 1 \in 1 .. n /\ 6 - n + (i + 1) = 6 - (n - 1) + i OBVIOUS
  <2>2. calls[i + 1] = FlushCalls[6 - n + (i + 1)] BY <2>1, Zenon DEF Left
  <2> QED BY <1>3, <2>1, <2>2, Zenon
<1>5. FlushCalls' = FlushCalls BY Zenon DEF FlushCalls
<1>6. /\ Len(calls') = n - 1
      /\ \A i \in 1 .. n - 1 : calls'[i] = FlushCalls'[6 - (n - 1) + i]
  BY <1>3, <1>4, <1>5, Zenon
<1> QED BY <1>3, <1>6, Zenon DEF Left

(* The steps of an update: it gets to the end of the file, the Duration is   *)
(* written over and nothing else, and it comes back to append.               *)
LEMMA UpdateStep ==
  ASSUME FileTypes, Updating, Total >= DurationEnd, phase = "open",
         Copy \/ Drain \/ Direct \/ SeekDone \/ FlushDone \/ MethodReturns
  PROVE  /\ FileTypes' /\ (Appending' \/ Updating') /\ Total' >= DurationEnd
         /\ Rewrites /\ phase' = "open"
<1>1. /\ disk \in Seq(Nat) /\ buffer \in Seq(Nat) /\ Len(disk) \in Nat
      /\ Len(buffer) \in Nat /\ position \in Nat /\ end \in Nat
      /\ maximum_end_us \in Nat
  BY DEF FileTypes
<1>2. DurationOffset \in Nat /\ DurationEnd \in Nat
  <2>1. \A x \in Nat : x + 8 \in Nat OBVIOUS
  <2> QED BY <2>1, HeaderCalls, Zenon DEF DurationEnd
<1>3. ASSUME disk' = disk PROVE Rewrites
  <2>1. Len(disk) >= Len(disk) BY <1>1
  <2> QED BY <1>3, <2>1, Zenon DEF Rewrites
<1>4. ASSUME NEW to, Call = Seek(to)
      PROVE  /\ Call.op = "seek" /\ Call.to = to
             /\ ~Copy /\ ~Direct /\ ~FlushDone /\ ~MethodReturns
  <2>1. Call.op = "seek" /\ Call.to = to BY <1>4 DEF Seek
  <2> QED BY <2>1 DEF Copy, Copies, Direct, Directs, FlushDone, MethodReturns
<1>5. ASSUME SeekDone
      PROVE  /\ calls' = Tail(calls) /\ buffer = << >> /\ buffer' = << >>
             /\ disk' = disk /\ phase' = phase /\ written' = written
             /\ maximum_end_us' = maximum_end_us /\ Total = Len(disk)
             /\ Total' = Total /\ HeaderStored /\ HeaderStored' /\ Rewrites
  <2>1. /\ calls' = Tail(calls) /\ buffer = << >> /\ buffer' = << >>
        /\ disk' = disk /\ phase' = phase /\ written' = written
        /\ maximum_end_us' = maximum_end_us
    BY <1>5, Zenon DEF SeekDone, clientVars
  <2>2. Total = Len(disk) BY <1>1, <2>1 DEF Total
  <2>3. Total' = Total BY <2>1, Zenon DEF Total
  <2>4. HeaderStored BY <2>2, Zenon DEF HeaderStored
  <2>5. HeaderStored' BY <2>1, <2>4, Zenon DEF HeaderStored, DurationEnd
  <2> QED BY <1>3, <2>1, <2>2, <2>3, <2>4, <2>5, Zenon
<1>6. /\ 6 \in 3 .. 6 /\ 5 \in 3 .. 6 /\ 4 \in 3 .. 6 /\ 3 \in 3 .. 6
      /\ 6 - 1 = 5 /\ 5 - 1 = 4 /\ 4 - 1 = 3 /\ 3 - 1 = 2
  OBVIOUS
<1>7. ASSUME Drain
      PROVE  /\ buffer # << >> /\ phase' = phase /\ calls' = calls
             /\ end' = end /\ maximum_end_us' = maximum_end_us
             /\ written' = written
             /\ \A n \in 3 .. 6 : Left(n) => Left(n)'
  <2>1. /\ buffer # << >> /\ phase' = phase /\ calls' = calls
        /\ end' = end /\ maximum_end_us' = maximum_end_us
        /\ written' = written
    BY <1>7, Zenon DEF Drain, Drains, clientVars
  <2>2. FlushCalls' = FlushCalls BY <2>1, Zenon DEF FlushCalls
  <2> QED BY <2>1, <2>2, Zenon DEF Left
<1>8. CASE Left(6) /\ position = Len(disk)
  <2>1. Call = Seek("end") BY <1>6, <1>8, LeftCall, Zenon
  <2>2. Call.to = "end" /\ (Drain \/ SeekDone)
    BY <1>4, <2>1, Zenon
  <2>3. CASE Drain
    <3>1. /\ Rewrites /\ disk' \in Seq(Nat) /\ position' \in Nat
          /\ buffer' \in Seq(Nat) /\ position' = Len(disk') /\ Total' = Total
      BY <1>8, <2>3, DrainAppends, Zenon DEF Total
    <3>2. Left(6)' BY <1>6, <1>7, <1>8, <2>3, Zenon
    <3>3. FileTypes' BY <1>7, <2>3, <3>1, Zenon DEF FileTypes
    <3>4. Updating' BY <3>1, <3>2, Zenon DEF Updating
    <3>5. Total' >= DurationEnd BY <3>1, Zenon
    <3> QED BY <1>7, <2>3, <3>1, <3>3, <3>4, <3>5, Zenon
  <2>4. CASE SeekDone
    <3>1. end' = Len(disk) /\ position' = Len(disk)
      BY <2>2, <2>4 DEF SeekDone
    <3>2. Left(5)' /\ calls' \in Seq(Calls)
      BY <1>5, <1>6, <1>8, <2>4, LeftStep, Zenon
    <3>3. FileTypes' BY <1>1, <1>5, <2>4, <3>1, <3>2, Zenon DEF FileTypes
    <3>4. Updating' BY <1>5, <2>4, <3>1, <3>2, Zenon DEF Updating
    <3>5. Total' >= DurationEnd BY <1>5, <2>4, Zenon
    <3> QED BY <1>5, <2>4, <3>3, <3>4, <3>5, Zenon
  <2> QED BY <2>2, <2>3, <2>4, Zenon
<1>9. CASE /\ HeaderStored /\ end = Len(disk)
           /\ Left(5) /\ buffer = << >> /\ position = Len(disk)
  <2>1. Call = Seek("duration") BY <1>6, <1>9, LeftCall, Zenon
  <2>2. Call.to = "duration" /\ SeekDone
    BY <1>4, <1>7, <1>9, <2>1, Zenon
  <2>3. end' = end /\ position' = DurationOffset BY <2>2 DEF SeekDone
  <2>4. Left(4)' /\ calls' \in Seq(Calls)
    BY <1>5, <1>6, <1>9, <2>2, LeftStep, Zenon
  <2>5. FileTypes' BY <1>1, <1>2, <1>5, <2>2, <2>3, <2>4, Zenon DEF FileTypes
  <2>6. DurationOffset' = DurationOffset
    OBVIOUS
  <2>7. Updating' BY <1>5, <1>9, <2>2, <2>3, <2>4, <2>6, Zenon DEF Updating
  <2>8. Total' >= DurationEnd BY <1>5, <2>2, Zenon
  <2> QED BY <1>5, <2>2, <2>5, <2>7, <2>8, Zenon
<1>10. CASE /\ HeaderStored /\ end = Len(disk)
            /\ Left(4) /\ buffer = << >> /\ position = DurationOffset
  <2>1. Call \in Writes /\ Len(Call.bytes) = 8
    BY <1>6, <1>10, LeftCall, Zenon
  <2>2. Call.op = "write_all" /\ Call.bytes \in Seq(Nat)
    BY <2>1 DEF Writes
  <2>3. Copy \/ Direct
    BY <1>7, <1>10, <2>2 DEF SeekDone, FlushDone, MethodReturns
  <2>4. CASE Copy
    <3>1. /\ buffer' = buffer \o Call.bytes /\ calls' = Tail(calls)
          /\ phase' = phase /\ end' = end /\ disk' = disk
          /\ position' = position /\ written' = written
          /\ maximum_end_us' = maximum_end_us
      BY <2>4, Zenon DEF Copy, clientVars
    <3>2. buffer' \in Seq(Nat) /\ Len(buffer') = 8
      BY <1>10, <2>1, <2>2, <3>1
    <3>3. Left(3)' /\ calls' \in Seq(Calls)
      BY <1>6, <1>10, <3>1, LeftStep, Zenon
    <3>4. FileTypes' BY <3>1, <3>2, <3>3, Zenon DEF FileTypes
    <3>5. HeaderStored' /\ OverDuration'
      BY <1>10, <3>1, <3>2, Zenon
         DEF OverDuration, HeaderStored, DurationEnd
    <3>6. Updating' BY <1>10, <3>1, <3>3, <3>5, Zenon DEF Updating
    <3>7. Total' >= DurationEnd
      <4>1. Total' = Len(disk) + 8 BY <3>1, <3>2, Zenon DEF Total
      <4>2. Len(disk) >= DurationEnd BY <1>10, Zenon DEF HeaderStored
      <4> QED BY <1>1, <1>2, <4>1, <4>2
    <3> QED BY <1>3, <3>1, <3>4, <3>6, <3>7, Zenon
  <2>5. CASE Direct
    <3>1. /\ Rewrites /\ disk' \in Seq(Nat) /\ position' \in Nat
          /\ calls' = Tail(calls) /\ Len(disk') = Len(disk)
          /\ buffer' = buffer
      BY <1>10, <2>1, <2>5, DirectOver, Zenon
    <3>2. /\ phase' = phase /\ end' = end /\ written' = written
          /\ maximum_end_us' = maximum_end_us
      BY <2>5, Zenon DEF Direct, clientVars
    <3>3. Left(3)' /\ calls' \in Seq(Calls)
      BY <1>6, <1>10, <3>1, <3>2, LeftStep, Zenon
    <3>4. FileTypes' BY <3>1, <3>2, <3>3, Zenon DEF FileTypes
    <3>5. HeaderStored'
      BY <1>10, <3>1, Zenon
         DEF HeaderStored, DurationEnd
    <3>6. Updating' BY <1>10, <3>1, <3>2, <3>3, <3>5, Zenon DEF Updating
    <3>7. Total' >= DurationEnd BY <3>1, Zenon DEF Total
    <3> QED BY <3>1, <3>2, <3>4, <3>6, <3>7, Zenon
  <2> QED BY <2>3, <2>4, <2>5, Zenon
<1>11. CASE /\ HeaderStored /\ end = Len(disk)
            /\ Left(3) /\ (buffer = << >> \/ OverDuration)
  <2>1. Call = Seek("remembered") BY <1>6, <1>11, LeftCall, Zenon
  <2>2. Call.to = "remembered" /\ (Drain \/ SeekDone)
    BY <1>4, <2>1, Zenon
  <2>3. CASE Drain
    <3>1. /\ Rewrites /\ disk' \in Seq(Nat) /\ position' \in Nat
          /\ buffer' = << >> /\ Len(disk') = Len(disk)
      BY <1>7, <1>11, <2>3, DrainOver, Zenon
    <3>2. Left(3)' BY <1>6, <1>7, <1>11, <2>3, Zenon
    <3>3. << >> \in Seq(Nat) OBVIOUS
    <3>4. FileTypes' BY <1>7, <2>3, <3>1, <3>3, Zenon DEF FileTypes
    <3>5. HeaderStored'
      BY <1>11, <3>1, Zenon
         DEF HeaderStored, DurationEnd
    <3>6. Updating' BY <1>7, <1>11, <2>3, <3>1, <3>2, <3>5, Zenon DEF Updating
    <3>7. Total' >= DurationEnd
      <4>1. Total' = Len(disk) + 0
        <5>1. Len(<< >>) = 0 OBVIOUS
        <5> QED BY <3>1, <5>1, Zenon DEF Total
      <4>2. Len(disk) >= DurationEnd BY <1>11, Zenon DEF HeaderStored
      <4> QED BY <1>1, <1>2, <4>1, <4>2
    <3> QED BY <1>7, <2>3, <3>1, <3>4, <3>6, <3>7, Zenon
  <2>4. CASE SeekDone
    <3>1. end' = end /\ position' = end BY <2>2, <2>4 DEF SeekDone
    <3>2. Left(2)' /\ calls' \in Seq(Calls)
      BY <1>5, <1>6, <1>11, <2>4, LeftStep, Zenon
    <3>3. FileTypes' BY <1>1, <1>5, <2>4, <3>1, <3>2, Zenon DEF FileTypes
    <3>4. calls' \in Seq(Appends)
      <4>1. FlushCalls' = FlushCalls BY <1>5, <2>4, Zenon DEF FlushCalls
      <4>2. /\ Len(calls') = 2
            /\ \A i \in 1 .. 2 : calls'[i] = FlushCalls[6 - 2 + i]
        BY <3>2, <4>1, Zenon DEF Left
      <4>3. FlushCalls[5] \in Appends /\ FlushCalls[6] \in Appends
        BY <1>1, UpdateCalls DEF Appends, Return
      <4>4. 6 - 2 + 1 = 5 /\ 6 - 2 + 2 = 6 OBVIOUS
      <4>5. calls'[1] \in Appends /\ calls'[2] \in Appends
        BY <4>2, <4>3, <4>4
      <4>6. \A s \in Seq(Calls) :
              Len(s) = 2 /\ s[1] \in Appends /\ s[2] \in Appends
                => s \in Seq(Appends)
        <5> SUFFICES ASSUME NEW s \in Seq(Calls), Len(s) = 2,
                            s[1] \in Appends, s[2] \in Appends
                     PROVE  s \in Seq(Appends)
          BY Zenon
        <5>1. s \in [1 .. 2 -> Calls] OBVIOUS
        <5>2. \A i \in 1 .. 2 : i = 1 \/ i = 2 OBVIOUS
        <5>3. \A i \in 1 .. 2 : s[i] \in Appends BY <5>2, Zenon
        <5>4. s \in [1 .. 2 -> Appends] BY <5>1, <5>3, Zenon
        <5> QED BY <5>4, SeqDef, ZenonT(30)
      <4> QED BY <3>2, <4>2, <4>5, <4>6, Zenon
    <3>5. Appending' BY <1>5, <1>11, <2>4, <3>1, <3>4, Zenon DEF Appending
    <3>6. Total' >= DurationEnd BY <1>5, <2>4, Zenon
    <3> QED BY <1>5, <2>4, <3>3, <3>5, <3>6, Zenon
  <2> QED BY <2>2, <2>3, <2>4, Zenon
<1> QED BY <1>8, <1>9, <1>10, <1>11, Zenon DEF Updating

-----------------------------------------------------------------------------
(* The calls of write_video and write_audio. *)
LEMMA EventAppends ==
  ASSUME written \in Seq(Events), NEW event \in Upcoming
  PROVE  /\ event \in Events /\ EventCalls(event) \in Seq(Appends)
         /\ Append(written, event) \in Seq(Events)
<1>1. PICK c \in Captures :
        IsStrictPrefix(written, c) /\ event = c[Len(written) + 1]
  BY Zenon DEF Upcoming
<1>2. c \in Seq(Events)
      /\ \A i \in DOMAIN c : /\ DataOf(c[i]) \in Seq(Nat)
                             /\ Len(DataOf(c[i])) <= MaxData
                             /\ c[i].pts_us \div 1000 <= MaxPts
  BY WriterAssumption, SMT
<1>3. Len(written) + 1 \in DOMAIN c
  <2>1. /\ Len(written) <= Len(c) /\ written # c
        /\ SubSeq(written, 1, Len(written)) = SubSeq(c, 1, Len(written))
    BY <1>1, Zenon DEF IsStrictPrefix, IsPrefix
  <2>2. \A s \in Seq(Events) : SubSeq(s, 1, Len(s)) = s OBVIOUS
  <2>3. Len(written) # Len(c) BY <1>2, <2>1, <2>2, Zenon
  <2> QED BY <1>2, <2>1, <2>3
<1>4. event \in Events BY <1>1, <1>2, <1>3
<1> DEFINE d == DataOf(event)  p == event.pts_us \div 1000  r == TrackOf(event)
           h == << 128 + r, 0, 0, 128 >>  a == UintElement(\he7, p)
           b == Element(\ha3, h \o d)
<1>5. d \in Seq(Nat) /\ Len(d) \in Nat /\ Len(d) <= MaxData
  <2>1. \A i \in DOMAIN c : DataOf(c[i]) \in Seq(Nat) /\ Len(DataOf(c[i])) <= MaxData
    BY <1>2
  <2>2. d \in Seq(Nat) /\ Len(d) <= MaxData
    <3> HIDE DEF d
    <3> QED BY <1>1, <1>3, <2>1, Zenon DEF d
  <2> HIDE DEF d
  <2> QED BY <2>2
<1>6. p \in Nat /\ EndOf(event) \in Nat BY <1>4 DEF Events, EndOf
<1>7. r \in Nat BY DEF TrackOf, VideoTrack, AudioTrack
<1> HIDE DEF d, p, r
<1>8. h \in Seq(Nat) /\ Len(h) = 4 BY <1>7
<1>9. a \in Seq(Nat) /\ Len(a) \in Nat /\ Len(a) <= 12
  <2>1. \he7 \in Nat OBVIOUS
  <2> QED BY <1>6, <2>1, ShortUint, Zenon DEF Short
<1> HIDE DEF h
<1>10. h \o d \in Seq(Nat) /\ Len(h \o d) = 4 + Len(d)
  <2>1. \A x, y \in Seq(Nat) :
          x \o y \in Seq(Nat) /\ Len(x \o y) = Len(x) + Len(y)
    OBVIOUS
  <2> QED BY <1>5, <1>8, <2>1, Zenon
<1>11. b \in Seq(Nat) /\ Len(b) \in Nat /\ Len(b) <= Len(d) + 12
  <2>1. Len(h \o d) <= LargestSize BY <1>5, <1>10 DEF LargestSize, MaxData
  <2>2. \ha3 \in Nat OBVIOUS
  <2>3. /\ b \in Seq(Nat)
        /\ Len(b) = ByteWidth(\ha3) + SizeWidth(Len(h \o d)) + Len(h \o d)
        /\ ByteWidth(\ha3) \in 1 .. 4 /\ SizeWidth(Len(h \o d)) \in 1 .. 4
    BY <1>10, <2>1, <2>2, ElementIs, Zenon
  <2>4. PICK x \in 1 .. 4, y \in 1 .. 4, z \in Nat :
          /\ x = ByteWidth(\ha3) /\ y = SizeWidth(Len(h \o d)) /\ z = Len(d)
    BY <1>5, <2>3, Zenon
  <2>5. Len(b) = x + y + (4 + z) BY <1>10, <2>3, <2>4, Zenon
  <2>6. x + y + (4 + z) \in Nat /\ x + y + (4 + z) <= z + 12 OBVIOUS
  <2> QED BY <2>3, <2>4, <2>5, <2>6, Zenon
<1> HIDE DEF a, b
<1>12. Short(a \o b, LargestSize)
  <2>1. a \o b \in Seq(Nat) /\ Len(a \o b) = Len(a) + Len(b)
    BY <1>9, <1>11
  <2>2. Len(a) + Len(b) \in Nat /\ Len(a) + Len(b) <= LargestSize
    BY <1>5, <1>9, <1>11 DEF LargestSize, MaxData
  <2> QED BY <2>1, <2>2, Zenon DEF Short
<1>13. EventCalls(event) =
         << WriteAll(WriteId(ClusterId)), WriteAll(WriteSize(Len(a \o b))),
            WriteAll(a \o b) >> \o << Return(EndOf(event)) >>
  BY Zenon DEF EventCalls, ElementCalls, Cluster, a, b, h, d, p, r
<1>14. Short(WriteId(ClusterId), LargestSize) BY Ids, ShortId
<1>15. Short(WriteSize(Len(a \o b)), LargestSize)
  BY <1>12, ShortSize DEF Short
<1>16. /\ WriteAll(WriteId(ClusterId)) \in Appends
       /\ WriteAll(WriteSize(Len(a \o b))) \in Appends
       /\ WriteAll(a \o b) \in Appends /\ Return(EndOf(event)) \in Appends
  <2>1. Writes \subseteq Appends /\ Return(EndOf(event)) \in Appends
    BY <1>6 DEF Appends, Return
  <2> QED BY <1>12, <1>14, <1>15, <2>1, WriteOf, Zenon
<1>17. \A x, y, z, e \in Appends : << x, y, z >> \o << e >> \in Seq(Appends)
  OBVIOUS
<1>18. EventCalls(event) \in Seq(Appends) BY <1>13, <1>16, <1>17, Zenon
<1>19. Append(written, event) \in Seq(Events) BY <1>4
<1> QED BY <1>4, <1>18, <1>19

-----------------------------------------------------------------------------
LEMMA FileInit == Init => FileInv
<1> SUFFICES ASSUME Init PROVE FileInv OBVIOUS
<1>1. /\ phase = "new" /\ calls = NewCalls /\ end = 0 /\ buffer = << >>
      /\ disk = << >> /\ position = 0 /\ maximum_end_us = 0
      /\ written = << >>
  BY Zenon DEF Init
<1>2. /\ << >> \in Seq(Nat) /\ << >> \in Seq(Events) /\ 0 \in Nat
      /\ Len(<< >>) = 0
  OBVIOUS
<1>3. NewCalls \in Seq(Appends) /\ Len(NewCalls) = 13 BY HeaderCalls
<1>4. NewCalls \in Seq(Calls) BY <1>3, AppendsAreCalls
<1>5. FileTypes BY <1>1, <1>2, <1>4, Zenon DEF FileTypes
<1>6. Appending BY <1>1, <1>2, <1>3, Zenon DEF Appending
<1>7. Creating
  <2>1. 1 \in 1 .. 13 /\ 14 - 1 = 13 /\ \A i \in 2 .. 13 : 1 - 1 + i = i
        /\ 0 \in 0 .. 12 /\ 0 + 1 = 1
    OBVIOUS
  <2>2. Total = 0 BY <1>1 DEF Total
  <2>3. /\ Owed(0) \in Nat /\ Owed(1) \in Nat /\ SizeOf(NewCalls[1]) \in Nat
        /\ Owed(0) <= SizeOf(NewCalls[1]) + Owed(1)
    <3>1. /\ Owed(0) \in Nat /\ Owed(0 + 1) \in Nat
          /\ Owed(0) <= SizeOf(NewCalls[0 + 1]) + Owed(0 + 1)
      BY <2>1, OwedStep
    <3>2. SizeOf(NewCalls[1]) \in Nat BY <2>1, HeaderCalls, Zenon
    <3>3. Owed(0 + 1) = Owed(1) /\ NewCalls[0 + 1] = NewCalls[1] OBVIOUS
    <3> QED BY <3>1, <3>2, <3>3, Zenon
  <2>4. PICK a \in Nat, b \in Nat, c \in Nat :
          a = Owed(0) /\ b = Owed(1) /\ c = SizeOf(NewCalls[1])
    BY <2>3, Zenon
  <2>5. a <= c + b BY <2>3, <2>4, Zenon
  <2>6. 0 + c + b >= a BY <2>5
  <2>7. Total + SizeOf(calls[1]) + Owed(1) >= Owed(0)
    BY <1>1, <2>2, <2>4, <2>6, Zenon
  <2>8. \A i \in 2 .. 14 - 1 : calls[i] = NewCalls[1 - 1 + i]
    BY <1>1, <2>1, Zenon
  <2> QED BY <1>1, <1>3, <2>1, <2>7, <2>8, Zenon DEF Creating
<1>8. PhaseNew BY <1>6, <1>7, Zenon DEF PhaseNew
<1>9. PhaseOpen /\ PhaseDrop /\ PhaseExit
  BY <1>1 DEF PhaseOpen, PhaseDrop, PhaseExit
<1> QED BY <1>5, <1>8, <1>9, Zenon DEF FileInv

(* In every state the file takes bytes only where it may, and so does a       *)
(* step: FileInv is inductive and every step respects the bytes.             *)
LEMMA FileStep == FileInv /\ [Next]_vars => FileInv' /\ Rewrites
<1> SUFFICES ASSUME FileInv, [Next]_vars PROVE FileInv' /\ Rewrites
  OBVIOUS
<1>1. FileTypes /\ PhaseNew /\ PhaseOpen /\ PhaseDrop /\ PhaseExit
  BY Zenon DEF FileInv
<1>2. /\ disk \in Seq(Nat) /\ buffer \in Seq(Nat) /\ Len(disk) \in Nat
      /\ Len(buffer) \in Nat /\ position \in Nat /\ end \in Nat
      /\ maximum_end_us \in Nat /\ written \in Seq(Events)
      /\ calls \in Seq(Calls) /\ phase \in {"new", "open", "drop", "exit"}
  BY <1>1 DEF FileTypes
<1>3. ASSUME disk' = disk PROVE Rewrites
  <2>1. Len(disk) >= Len(disk) BY <1>2
  <2> QED BY <1>3, <2>1, Zenon DEF Rewrites
<1>4. << >> \in Seq(Calls) /\ << >> \in Seq(Appends) /\ << >> \in Seq(Nat)
      /\ 0 \in Nat /\ Len(<< >>) = 0
  OBVIOUS
(* Where no method is under way the file is at its end. *)
<1>5. ASSUME Idle
      PROVE  phase = "open" /\ position = Len(disk) /\ Total >= DurationEnd
  <2>1. phase = "open" /\ calls = << >> BY <1>5 DEF Idle
  <2>2. \A n \in 3 .. 6 : ~Left(n) BY <1>4, <2>1 DEF Left
  <2>3. ~Left(6) /\ ~Left(5) /\ ~Left(4) /\ ~Left(3) BY <2>2
  <2>4. ~Updating BY <2>3, Zenon DEF Updating
  <2> QED BY <1>1, <2>1, <2>4, Zenon DEF PhaseOpen, Appending
(* Where a method is left, what the drop finds is in order. *)
<1>6. ASSUME phase' = "drop", calls' = << >>, UNCHANGED fileVars,
             maximum_end_us' = maximum_end_us, written' = written,
             position = Len(disk) \/ buffer = << >> \/ OverDuration
      PROVE  FileInv' /\ Rewrites
  <2>1. FileTypes' BY <1>2, <1>4, <1>6, Zenon DEF FileTypes, fileVars
  <2>2. disk' = disk /\ buffer' = buffer /\ position' = position
    BY <1>6 DEF fileVars
  <2>3. PhaseNew' /\ PhaseOpen' /\ PhaseExit'
    BY <1>6 DEF PhaseNew, PhaseOpen, PhaseExit
  <2>4. PhaseDrop'
    BY <1>6, <2>2, Zenon
       DEF PhaseDrop, OverDuration, HeaderStored, DurationEnd
  <2> QED BY <1>3, <2>1, <2>2, <2>3, <2>4, Zenon DEF FileInv
(* Where a method begins, its calls append or update. *)
<1>7. ASSUME phase' = "open", disk' = disk, buffer' = buffer, FileTypes',
             Total >= DurationEnd, Appending' \/ Updating'
      PROVE  FileInv' /\ Rewrites
  <2>1. Total' >= DurationEnd BY <1>7, Zenon DEF Total
  <2>2. PhaseOpen' BY <1>7, <2>1, Zenon DEF PhaseOpen
  <2>3. PhaseNew' /\ PhaseDrop' /\ PhaseExit'
    BY <1>7 DEF PhaseNew, PhaseDrop, PhaseExit
  <2> QED BY <1>3, <1>7, <2>2, <2>3, Zenon DEF FileInv
<1>8. CASE WriteEvent
  <2>1. PICK event \in Upcoming :
          /\ Idle /\ calls' = EventCalls(event)
          /\ written' = Append(written, event)
          /\ UNCHANGED << phase, fileVars, maximum_end_us >>
    BY <1>8, Zenon DEF WriteEvent
  <2>2. /\ EventCalls(event) \in Seq(Appends)
        /\ Append(written, event) \in Seq(Events)
    BY <1>2, EventAppends, Zenon
  <2>3. /\ disk' = disk /\ buffer' = buffer /\ position' = position
        /\ phase' = "open"
    BY <1>5, <2>1 DEF fileVars
  <2>4. calls' \in Seq(Calls) BY <2>1, <2>2, AppendsAreCalls
  <2>5. FileTypes'
    BY <1>2, <2>1, <2>2, <2>4, Zenon DEF FileTypes, fileVars
  <2>6. Appending' BY <1>5, <2>1, <2>2, <2>3, Zenon DEF Appending
  <2> QED BY <1>5, <1>7, <2>1, <2>3, <2>5, <2>6, Zenon
<1>9. CASE PeriodicFlush \/ FinalFlush
  <2>1. /\ Idle /\ calls' = FlushCalls
        /\ UNCHANGED << phase, fileVars, maximum_end_us, written >>
    BY <1>9, Zenon DEF PeriodicFlush, FinalFlush
  <2>2. /\ disk' = disk /\ buffer' = buffer /\ position' = position
        /\ phase' = "open"
    BY <1>5, <2>1 DEF fileVars
  <2>3. FlushCalls \in Seq(Calls) /\ Len(FlushCalls) = 6
    BY <1>2, UpdateCalls
  <2>4. FileTypes' BY <1>2, <2>1, <2>3, Zenon DEF FileTypes, fileVars
  <2>5. Left(6)'
    <3>1. FlushCalls' = FlushCalls BY <2>1, Zenon DEF FlushCalls
    <3>2. \A i \in 1 .. 6 : 6 - 6 + i = i OBVIOUS
    <3> QED BY <2>1, <2>3, <3>1, <3>2, Zenon DEF Left
  <2>6. Updating' BY <1>5, <2>1, <2>2, <2>5, Zenon DEF Updating
  <2> QED BY <1>5, <1>7, <2>1, <2>2, <2>4, <2>6, Zenon
<1>10. CASE RefuseEvent \/ ReturnOk \/ ReturnErr
  <2>1. /\ Idle /\ phase' = "drop" /\ calls' = << >>
        /\ UNCHANGED << fileVars, maximum_end_us, written >>
    BY <1>10, Zenon DEF RefuseEvent, ReturnOk, ReturnErr, LeaveWith
  <2> QED BY <1>5, <1>6, <2>1, Zenon
<1>11. CASE WriteFails
  <2>1. /\ phase' = "drop" /\ calls' = << >> /\ phase # "drop"
        /\ UNCHANGED << fileVars, maximum_end_us, written >>
        /\ Drains \/ Directs
    BY <1>11, Zenon DEF WriteFails, LeaveWith
  <2>2. calls # << >> BY <2>1 DEF Drains, Directs
  <2>3. phase # "exit" BY <1>1, <2>2, Zenon DEF PhaseExit
  <2>4. phase \in {"new", "open"} BY <1>2, <2>1, <2>3
  <2>5. position = Len(disk) \/ buffer = << >> \/ OverDuration
    BY <1>1, <2>4, Zenon DEF PhaseNew, PhaseOpen, Appending, Updating
  <2> QED BY <1>6, <2>1, <2>5, Zenon
<1> DEFINE Io == Copy \/ Drain \/ Direct \/ SeekDone \/ FlushDone
<1>12. CASE phase = "new" /\ Io
  <2>1. FileTypes /\ Appending /\ Creating
    BY <1>1, <1>12, Zenon DEF PhaseNew
  <2>2. calls # << >>
    BY <1>2, <2>1 DEF Creating
  <2>3. FileTypes' /\ Appending' /\ Rewrites /\ phase' = phase
    BY <1>12, <2>1, <2>2, AppendStep, Zenon
  <2>4. Creating' BY <1>12, <2>1, CreatingStep, Zenon
  <2>5. PhaseNew' BY <2>3, <2>4, Zenon DEF PhaseNew
  <2>6. PhaseOpen' /\ PhaseDrop' /\ PhaseExit'
    BY <1>12, <2>3 DEF PhaseOpen, PhaseDrop, PhaseExit
  <2> QED BY <2>3, <2>5, <2>6, Zenon DEF FileInv
<1>13. CASE phase = "open" /\ Appending /\ calls # << >> /\ Io
  <2>1. Total >= DurationEnd BY <1>1, <1>13, Zenon DEF PhaseOpen
  <2>2. /\ FileTypes' /\ Appending' /\ Rewrites /\ phase' = phase
        /\ Total' >= Total
    BY <1>1, <1>13, AppendStep, Zenon
  <2>3. Total' >= DurationEnd
    <3>1. Total \in Nat /\ Total' \in Nat
      <4>1. disk' \in Seq(Nat) /\ buffer' \in Seq(Nat) BY <2>2 DEF FileTypes
      <4> QED BY <1>2, <4>1 DEF Total
    <3>2. DurationEnd \in Nat
      <4>1. \A x \in Nat : x + 8 \in Nat OBVIOUS
      <4> QED BY <4>1, HeaderCalls, Zenon DEF DurationEnd
    <3> QED BY <2>1, <2>2, <3>1, <3>2
  <2>4. PhaseOpen' BY <2>2, <2>3, Zenon DEF PhaseOpen
  <2>5. PhaseNew' /\ PhaseDrop' /\ PhaseExit'
    BY <1>13, <2>2 DEF PhaseNew, PhaseDrop, PhaseExit
  <2> QED BY <2>2, <2>4, <2>5, Zenon DEF FileInv
<1>14. CASE phase = "open" /\ Updating /\ (Io \/ MethodReturns)
  <2>1. Total >= DurationEnd BY <1>1, <1>14, Zenon DEF PhaseOpen
  <2>2. /\ FileTypes' /\ (Appending' \/ Updating') /\ Total' >= DurationEnd
        /\ Rewrites /\ phase' = "open"
    BY <1>1, <1>14, <2>1, UpdateStep, Zenon
  <2>3. PhaseOpen' BY <2>2, Zenon DEF PhaseOpen
  <2>4. PhaseNew' /\ PhaseDrop' /\ PhaseExit'
    BY <2>2 DEF PhaseNew, PhaseDrop, PhaseExit
  <2> QED BY <2>2, <2>3, <2>4, Zenon DEF FileInv
<1>15. CASE MethodReturns /\ phase \in {"new", "open"} /\ Appending
  <2>1. /\ calls # << >> /\ Call.op = "return"
        /\ maximum_end_us' = IF Call.end > maximum_end_us THEN Call.end
                             ELSE maximum_end_us
        /\ calls' = << >> /\ phase' = "open"
        /\ UNCHANGED << fileVars, written >>
    BY <1>15, Zenon DEF MethodReturns
  <2>2. calls \in Seq(Appends) BY <1>15 DEF Appending
  <2>3. Call.end \in Nat BY <2>1, <2>2, FirstCall, AppendsAre, Zenon
  <2>4. maximum_end_us' \in Nat BY <1>2, <2>1, <2>3
  <2>5. /\ disk' = disk /\ buffer' = buffer /\ position' = position
        /\ end' = end /\ written' = written
    BY <2>1 DEF fileVars
  <2>6. FileTypes' BY <1>2, <1>4, <2>1, <2>4, <2>5, Zenon DEF FileTypes
  <2>7. Appending' BY <1>4, <1>15, <2>1, <2>5, Zenon DEF Appending
  <2>8. Total >= DurationEnd
    <3>1. CASE phase = "open" BY <1>1, <3>1, Zenon DEF PhaseOpen
    <3>2. CASE phase = "new"
      BY <1>1, <1>15, <3>2, CreatingEnds, Zenon DEF PhaseNew
    <3> QED BY <1>15, <3>1, <3>2
  <2> QED BY <1>7, <2>1, <2>5, <2>6, <2>7, <2>8, Zenon
<1>16. CASE phase = "drop" /\ Drain
  <2>1. calls = << >> /\ (position = Len(disk) \/ OverDuration)
    BY <1>1, <1>16, Zenon DEF PhaseDrop, Drain, Drains
  <2>2. UNCHANGED << phase, calls, end, clientVars >> BY <1>16 DEF Drain
  <2>3. /\ Rewrites /\ disk' \in Seq(Nat) /\ position' \in Nat
        /\ buffer' \in Seq(Nat)
        /\ position' = Len(disk') \/ buffer' = << >>
    BY <1>1, <1>4, <1>16, <2>1, DrainAppends, DrainOver, Zenon
  <2>4. FileTypes' BY <1>2, <2>2, <2>3, Zenon DEF FileTypes, clientVars
  <2>5. PhaseDrop' BY <2>1, <2>2, <2>3, Zenon DEF PhaseDrop
  <2>6. PhaseNew' /\ PhaseOpen' /\ PhaseExit'
    BY <1>16, <2>2 DEF PhaseNew, PhaseOpen, PhaseExit
  <2> QED BY <2>3, <2>4, <2>5, <2>6, Zenon DEF FileInv
<1>17. CASE Dropped
  <2>1. /\ phase = "drop" /\ phase' = "exit"
        /\ UNCHANGED << calls, fileVars, clientVars >>
    BY <1>17, Zenon DEF Dropped
  <2>2. FileTypes' /\ disk' = disk
    BY <1>2, <2>1, Zenon DEF FileTypes, fileVars, clientVars
  <2>3. calls' = << >> BY <1>1, <2>1, Zenon DEF PhaseDrop
  <2>4. PhaseNew' /\ PhaseOpen' /\ PhaseDrop' /\ PhaseExit'
    BY <2>1, <2>3 DEF PhaseNew, PhaseOpen, PhaseDrop, PhaseExit
  <2> QED BY <1>3, <2>2, <2>4, Zenon DEF FileInv
<1>18. CASE Kill
  <2>1. /\ phase' = "exit" /\ calls' = << >> /\ buffer' = << >> /\ end' = 0
        /\ position' = 0 /\ maximum_end_us' = 0 /\ disk' = disk
        /\ written' = written
    BY <1>18, Zenon DEF Kill
  <2>2. FileTypes' BY <1>2, <1>4, <2>1, Zenon DEF FileTypes
  <2>3. PhaseNew' /\ PhaseOpen' /\ PhaseDrop' /\ PhaseExit'
    BY <2>1 DEF PhaseNew, PhaseOpen, PhaseDrop, PhaseExit
  <2> QED BY <1>3, <2>1, <2>2, <2>3, Zenon DEF FileInv
<1>19. CASE UNCHANGED vars
  <2>1. /\ phase' = phase /\ calls' = calls /\ end' = end /\ buffer' = buffer
        /\ disk' = disk /\ position' = position
        /\ maximum_end_us' = maximum_end_us /\ written' = written
    BY <1>19 DEF vars
  <2>2. FlushCalls' = FlushCalls BY <2>1, Zenon DEF FlushCalls
  <2>3. \A n : Left(n)' <=> Left(n) BY <2>1, <2>2, Zenon DEF Left
  <2>4. Total' = Total /\ (Appending' <=> Appending)
        /\ (HeaderStored' <=> HeaderStored) /\ (OverDuration' <=> OverDuration)
    BY <2>1, Zenon
       DEF Total, Appending, HeaderStored, OverDuration, DurationEnd
  <2>5. Creating' <=> Creating
    BY <2>1, <2>4, Zenon DEF Creating, Owed, NewCalls
  <2>6. Updating' <=> Updating
    BY <2>1, <2>3, <2>4, Zenon DEF Updating
  <2>7. FileTypes' BY <1>2, <2>1, Zenon DEF FileTypes
  <2>8. PhaseNew' /\ PhaseOpen' /\ PhaseDrop' /\ PhaseExit'
    BY <1>1, <2>1, <2>4, <2>5, <2>6, Zenon
       DEF PhaseNew, PhaseOpen, PhaseDrop, PhaseExit, DurationEnd
  <2> QED BY <1>3, <2>1, <2>7, <2>8, Zenon DEF FileInv
<1>20. CASE Io
  <2>1. phase = "drop" => Drain
    <3>1. phase = "drop" => calls = << >> BY <1>1, Zenon DEF PhaseDrop
    <3> QED BY <1>20, <3>1, Zenon
            DEF Copy, Copies, Direct, Directs, SeekDone, FlushDone
  <2>2. phase # "exit"
    <3>1. phase = "exit" => calls = << >> BY <1>1, Zenon DEF PhaseExit
    <3>2. "exit" # "drop" OBVIOUS
    <3> QED BY <1>20, <3>1, <3>2, Zenon
            DEF Copy, Copies, Direct, Directs, SeekDone, FlushDone, Drain,
                Drains
  <2>3. phase = "open" => (Appending /\ calls # << >>) \/ Updating
    <3>1. "open" # "drop" OBVIOUS
    <3>2. phase = "open" => calls # << >>
      BY <1>20, <3>1, Zenon
         DEF Copy, Copies, Direct, Directs, SeekDone, FlushDone, Drain, Drains
    <3> QED BY <1>1, <3>2, Zenon DEF PhaseOpen
  <2>4. phase = "new" \/ phase = "open" \/ phase = "drop" BY <1>2, <2>2
  <2> QED BY <1>12, <1>13, <1>14, <1>16, <1>20, <2>1, <2>3, <2>4, Zenon
<1>21. CASE MethodReturns
  <2>1. phase \in {"new", "open"}
    <3>1. calls # << >> BY <1>21, Zenon DEF MethodReturns
    <3>2. phase # "drop" /\ phase # "exit"
      BY <1>1, <3>1, Zenon DEF PhaseDrop, PhaseExit
    <3> QED BY <1>2, <3>2
  <2>2. Appending \/ (phase = "open" /\ Updating)
    BY <1>1, <2>1, Zenon DEF PhaseNew, PhaseOpen
  <2> QED BY <1>14, <1>15, <1>21, <2>1, <2>2, Zenon
<1> HIDE DEF Io
<1>22. CASE Finished BY <1>19, <1>22, Zenon DEF Finished
<1>23. CASE Client
  BY <1>8, <1>9, <1>10, <1>23, Zenon DEF Client
<1>24. CASE File
  BY <1>11, <1>17, <1>20, <1>21, <1>24, Zenon DEF File, Io
<1> QED BY <1>18, <1>19, <1>22, <1>23, <1>24, Zenon DEF Next

(* OnlyDurationRewritten: whatever is captured, whatever the capacity of the *)
(* buffer and however writes are cut short or refused, no byte that reached  *)
(* the file changes but the eight of the Duration.                           *)
THEOREM RewriteSafety == Spec => OnlyDurationRewritten
<1>1. Init => FileInv BY FileInit
<1>2. FileInv /\ [Next]_vars => FileInv' BY FileStep
<1>3. FileInv /\ [Next]_vars => [Rewrites]_vars BY FileStep
<1>4. OnlyDurationRewritten <=> [][Rewrites]_vars
  BY DEF OnlyDurationRewritten, Rewrites
<1> QED BY <1>1, <1>2, <1>3, <1>4, PTL DEF Spec

-----------------------------------------------------------------------------
(* The reference reader.  A number of w bytes is known by its first byte. *)

LEMMA Markers == /\ Marker[1] = 128 /\ Marker[2] = 64 /\ Marker[3] = 32
                 /\ Marker[4] = 16
BY SMT DEF Marker

LEMMA Units == /\ Unit[1] = 128 /\ Unit[2] = 16384 /\ Unit[3] = 2097152
               /\ Unit[4] = 268435456
BY SMT DEF Unit

(* Reader and writer have the same limits. *)
LEMMA UnitsAreLimits == \A w \in 1 .. 4 : Unit[w] = SizeLimit[w]
BY Units, Limits, SMT

(* A first byte announces one width. *)
LEMMA WidthIs ==
  ASSUME NEW w \in 1 .. 4, NEW b \in Announces[w]
  PROVE  b \in 16 .. 255 /\ WidthOf[b] = w
<1>1. /\ b \in 16 .. 255 /\ Marker[w] <= b /\ b < 2 * Marker[w]
      /\ \A v \in 1 .. 4 : Marker[v] <= b /\ b < 2 * Marker[v] => v = w
  <2>1. CASE w = 1 BY <2>1, Markers, Announced, SMT
  <2>2. CASE w = 2 BY <2>2, Markers, Announced, SMT
  <2>3. CASE w = 3 BY <2>3, Markers, Announced, SMT
  <2>4. CASE w = 4 BY <2>4, Markers, Announced, SMT
  <2> QED BY <2>1, <2>2, <2>3, <2>4
<1>2. WidthOf[b] =
        CHOOSE v \in 1 .. 4 : Marker[v] <= b /\ b < 2 * Marker[v]
  BY <1>1, Zenon DEF WidthOf
<1> QED BY <1>1, <1>2, Zenon

(* Every first byte announces some width. *)
LEMMA WidthType ==
  ASSUME NEW b \in 16 .. 255
  PROVE  WidthOf[b] \in 1 .. 4 /\ b \in Announces[WidthOf[b]]
<1>1. \E w \in 1 .. 4 : b \in Announces[w]
  <2>1. \/ b \in 128 .. 255 \/ b \in 64 .. 127 \/ b \in 32 .. 63
        \/ b \in 16 .. 31
    OBVIOUS
  <2> QED BY <2>1, Announced
<1> QED BY <1>1, WidthIs

(* Up to four bytes are read as the number they stand for. *)
LEMMA DigitIs ==
  ASSUME NEW s \in Seq(Nat), NEW k \in 1 .. 4
  PROVE  /\ k <= Len(s) => /\ Digit(s, k) = s[Len(s) + 1 - k]
                           /\ Digit(s, k) \in Nat
         /\ ~(k <= Len(s)) => Digit(s, k) = 0
<1>1. k <= Len(s) => s[Len(s) + 1 - k] \in Nat
  <2>1. Len(s) \in Nat OBVIOUS
  <2>2. k <= Len(s) => Len(s) + 1 - k \in 1 .. Len(s) BY <2>1
  <2> QED BY <2>2
<1> QED BY <1>1, Zenon DEF Digit

(* Number is the number that w bytes stand for. *)
LEMMA NumberIs ==
  ASSUME NEW s \in Seq(Nat), NEW w \in 1 .. 4, Len(s) = w
  PROVE  Number[s] = ValueOf(s, w) /\ Number[s] \in Nat
<1>1. Number[s] = Digit(s, 1) + 256 * Digit(s, 2) + 65536 * Digit(s, 3)
                  + 16777216 * Digit(s, 4)
  BY SMT DEF Number, Octets
<1>2. \A k \in 1 .. 4 :
        /\ k <= w => Digit(s, k) = s[w + 1 - k] /\ Digit(s, k) \in Nat
        /\ ~(k <= w) => Digit(s, k) = 0
  BY DigitIs, Zenon
<1>3. /\ 1 \in 1 .. 4 /\ 2 \in 1 .. 4 /\ 3 \in 1 .. 4 /\ 4 \in 1 .. 4 OBVIOUS
<1>4. /\ 1 <= w => Digit(s, 1) = s[w + 1 - 1] /\ Digit(s, 1) \in Nat
      /\ 2 <= w => Digit(s, 2) = s[w + 1 - 2] /\ Digit(s, 2) \in Nat
      /\ 3 <= w => Digit(s, 3) = s[w + 1 - 3] /\ Digit(s, 3) \in Nat
      /\ 4 <= w => Digit(s, 4) = s[w + 1 - 4] /\ Digit(s, 4) \in Nat
      /\ ~(2 <= w) => Digit(s, 2) = 0
      /\ ~(3 <= w) => Digit(s, 3) = 0
      /\ ~(4 <= w) => Digit(s, 4) = 0
  BY <1>2, <1>3, Zenon
<1>5. CASE w = 1 BY <1>1, <1>4, <1>5, SMT DEF ValueOf
<1>6. CASE w = 2 BY <1>1, <1>4, <1>6, SMT DEF ValueOf
<1>7. CASE w = 3
  <2>1. /\ Digit(s, 1) = s[3] /\ Digit(s, 2) = s[2] /\ Digit(s, 3) = s[1]
        /\ Digit(s, 4) = 0 /\ Digit(s, 1) \in Nat /\ Digit(s, 2) \in Nat
        /\ Digit(s, 3) \in Nat
    BY <1>4, <1>7
  <2>2. ValueOf(s, w) = 65536 * s[1] + 256 * s[2] + s[3]
    BY <1>7, SMT DEF ValueOf
  <2>3. PICK a \in Nat, b \in Nat, c \in Nat :
          a = Digit(s, 1) /\ b = Digit(s, 2) /\ c = Digit(s, 3)
    BY <2>1, Zenon
  <2>4. Number[s] = a + 256 * b + 65536 * c BY <1>1, <2>1, <2>3, SMTT(30)
  <2>5. s[1] = c /\ s[2] = b /\ s[3] = a BY <2>1, <2>3, Zenon
  <2>6. ValueOf(s, w) = 65536 * c + 256 * b + a BY <2>2, <2>5, SMT
  <2> QED BY <2>4, <2>6, SMT
<1>8. CASE w = 4
  <2>1. /\ Digit(s, 1) = s[4] /\ Digit(s, 2) = s[3] /\ Digit(s, 3) = s[2]
        /\ Digit(s, 4) = s[1] /\ Digit(s, 1) \in Nat /\ Digit(s, 2) \in Nat
        /\ Digit(s, 3) \in Nat /\ Digit(s, 4) \in Nat
    BY <1>4, <1>8
  <2>2. ValueOf(s, w) = 16777216 * s[1] + 65536 * s[2] + 256 * s[3] + s[4]
    BY <1>8, SMT DEF ValueOf
  <2>3. PICK a \in Nat, b \in Nat, c \in Nat, d \in Nat :
          /\ a = Digit(s, 1) /\ b = Digit(s, 2) /\ c = Digit(s, 3)
          /\ d = Digit(s, 4)
    BY <2>1, Zenon
  <2>4. Number[s] = a + 256 * b + 65536 * c + 16777216 * d
    BY <1>1, <2>3, SMT
  <2>5. s[1] = d /\ s[2] = c /\ s[3] = b /\ s[4] = a BY <2>1, <2>3, Zenon
  <2>6. ValueOf(s, w) = 16777216 * d + 65536 * c + 256 * b + a
    BY <2>2, <2>5, SMT
  <2> QED BY <2>4, <2>6, SMT
<1>9. w = 1 \/ w = 2 \/ w = 3 \/ w = 4 OBVIOUS
<1> QED BY <1>5, <1>6, <1>7, <1>8, <1>9, Zenon

(* s lies in f from i on, as far as f goes. *)
Lies(s, f, i) == \A j \in 1 .. Len(s) : i + j - 1 <= Len(f) => f[i + j - 1] = s[j]

(* A coded number that lies in a file is read, or not at all if it is cut. *)
LEMMA NumberLies ==
  ASSUME NEW f \in Seq(Nat), NEW i \in Nat \ {0}, NEW s \in Seq(Nat),
         NEW w \in 1 .. 4, Len(s) = w, s[1] \in Announces[w], Lies(s, f, i)
  PROVE  /\ i + w - 1 <= Len(f) =>
              /\ IsNumber(f, i) /\ WidthOf[f[i]] = w
              /\ NumberAt(f, i) = ValueOf(s, w)
         /\ ~(i + w - 1 <= Len(f)) => ~IsNumber(f, i)
<1>1. s[1] \in 16 .. 255 /\ WidthOf[s[1]] = w BY WidthIs
<1>2. i <= Len(f) => f[i] = s[1]
  <2>1. 1 \in 1 .. Len(s) /\ i + 1 - 1 = i OBVIOUS
  <2> QED BY <2>1 DEF Lies
<1>3. ~(i + w - 1 <= Len(f)) => ~IsNumber(f, i)
  BY <1>1, <1>2, Zenon DEF IsNumber
<1>4. ASSUME i + w - 1 <= Len(f)
      PROVE  /\ IsNumber(f, i) /\ WidthOf[f[i]] = w
             /\ NumberAt(f, i) = ValueOf(s, w)
  <2>1. i <= Len(f) /\ f[i] = s[1] BY <1>2, <1>4
  <2>2. IsNumber(f, i) /\ WidthOf[f[i]] = w
    BY <1>1, <1>4, <2>1, Zenon DEF IsNumber
  <2>3. SubSeq(f, i, i + w - 1) = s
    <3>1. /\ SubSeq(f, i, i + w - 1) \in Seq(Nat)
          /\ Len(SubSeq(f, i, i + w - 1)) = w
          /\ \A j \in 1 .. w : SubSeq(f, i, i + w - 1)[j] = f[i + j - 1]
      BY <1>4
    <3>2. \A j \in 1 .. w : i + j - 1 <= Len(f) BY <1>4
    <3>3. \A j \in 1 .. w : SubSeq(f, i, i + w - 1)[j] = s[j]
      BY <3>1, <3>2, Zenon DEF Lies
    <3> QED BY <3>1, <3>3
  <2>4. NumberAt(f, i) = Number[s] BY <2>2, <2>3, Zenon DEF NumberAt
  <2> QED BY <2>2, <2>4, NumberIs
<1> QED BY <1>3, <1>4

-----------------------------------------------------------------------------
(* Numbers and ids as the reader finds them. *)

(* The largest time or id that is written, in milliseconds. *)
MaxNumber == 2147483647

(* A number is its quotient and its remainder. *)
LEMMA DivMod ==
  ASSUME NEW v \in Nat, v <= MaxNumber
  PROVE  /\ v < 256 => v % 256 = v
         /\ v < 65536 => 256 * ((v \div 256) % 256) + (v % 256) = v
         /\ v < 16777216 => 65536 * ((v \div 65536) % 256)
                            + 256 * ((v \div 256) % 256) + (v % 256) = v
         /\ 16777216 * ((v \div 16777216) % 256)
            + 65536 * ((v \div 65536) % 256)
            + 256 * ((v \div 256) % 256) + (v % 256) = v
<1>1. v < 256 => v % 256 = v BY SMT
<1>2. v < 65536 => 256 * ((v \div 256) % 256) + (v % 256) = v BY SMT
<1>3. v < 16777216 => 65536 * ((v \div 65536) % 256)
                      + 256 * ((v \div 256) % 256) + (v % 256) = v
  BY SMT
<1>4. 16777216 * ((v \div 16777216) % 256) + 65536 * ((v \div 65536) % 256)
      + 256 * ((v \div 256) % 256) + (v % 256) = v
  BY SMT DEF MaxNumber
<1> QED BY <1>1, <1>2, <1>3, <1>4

(* A number takes as many bytes as it needs. *)
LEMMA ByteWidthIs ==
  ASSUME NEW v \in Nat
  PROVE  /\ ByteWidth(v) \in 1 .. 4
         /\ ByteWidth(v) = 1 <=> v < Power256[2]
         /\ ByteWidth(v) = 2 <=> Power256[2] <= v /\ v < Power256[3]
         /\ ByteWidth(v) = 3 <=> Power256[3] <= v /\ v < Power256[4]
         /\ ByteWidth(v) = 4 <=> Power256[4] <= v
<1> DEFINE P(n) == /\ n = 1 \/ v >= Power256[n]
                   /\ n = 4 \/ v < Power256[n + 1]
<1>1. /\ P(1) <=> v < Power256[2]
      /\ P(2) <=> Power256[2] <= v /\ v < Power256[3]
      /\ P(3) <=> Power256[3] <= v /\ v < Power256[4]
      /\ P(4) <=> Power256[4] <= v
  BY Powers, SMT
<1>2. ByteWidth(v) = CHOOSE n \in 1 .. 4 : P(n) BY Zenon DEF ByteWidth
<1>3. \E n \in 1 .. 4 : P(n)
  <2>1. P(1) \/ P(2) \/ P(3) \/ P(4) BY <1>1, Powers, SMT
  <2>2. 1 \in 1 .. 4 /\ 2 \in 1 .. 4 /\ 3 \in 1 .. 4 /\ 4 \in 1 .. 4 OBVIOUS
  <2> QED BY <2>1, <2>2, Zenon
<1> HIDE DEF P
<1>4. ByteWidth(v) \in 1 .. 4 /\ P(ByteWidth(v)) BY <1>2, <1>3, Zenon
<1> QED BY <1>1, <1>4, Powers, SMT

(* A number in its bytes reads back as itself. *)
LEMMA BigEndianReads ==
  ASSUME NEW v \in Nat, v <= MaxNumber, NEW w \in 1 .. 4, w = ByteWidth(v)
  PROVE  /\ BigEndian(v, w) \in Seq(Nat) /\ Len(BigEndian(v, w)) = w
         /\ BigEndian(v, w)[1] = (v \div Power256[w]) % 256
         /\ ValueOf(BigEndian(v, w), w) = v
<1> DEFINE b == BigEndian(v, w)
<1>1. b \in Seq(Nat) /\ Len(b) = w BY BigEndianIs
<1>2. b = [i \in 1 .. w |-> (v \div Power256[w - i + 1]) % 256]
  BY Zenon DEF BigEndian
<1> HIDE DEF b
<1>3. b[1] = (v \div Power256[w]) % 256
  <2>1. 1 \in 1 .. w /\ w - 1 + 1 = w OBVIOUS
  <2> QED BY <1>2, <2>1, Zenon
<1>4. /\ w = 1 => v < Power256[2]
      /\ w = 2 => v < Power256[3]
      /\ w = 3 => v < Power256[4]
  <2>1. /\ ByteWidth(v) = 1 => v < Power256[2]
        /\ ByteWidth(v) = 2 => v < Power256[3]
        /\ ByteWidth(v) = 3 => v < Power256[4]
    BY ByteWidthIs, Zenon
  <2> QED BY <2>1, Zenon
<1>5. ValueOf(b, w) = v
  <2>1. CASE w = 1
    <3>1. b[1] = (v \div 1) % 256 BY <1>3, <2>1, Powers
    <3>2. v < 256 BY <1>4, <2>1, Powers, SMT
    <3>3. (v \div 1) % 256 = v BY <3>2
    <3> QED BY <2>1, <3>1, <3>3 DEF ValueOf
  <2>2. CASE w = 2
    <3>1. b[1] = (v \div 256) % 256 /\ b[2] = (v \div 1) % 256
      BY <1>2, <2>2, Powers
    <3>2. v < 65536 BY <1>4, <2>2, Powers, SMT
    <3>3. 256 * ((v \div 256) % 256) + (v % 256) = v /\ v \div 1 = v
      BY <3>2, DivMod
    <3> QED BY <2>2, <3>1, <3>3 DEF ValueOf
  <2>3. CASE w = 3
    <3>1. /\ b[1] = (v \div 65536) % 256 /\ b[2] = (v \div 256) % 256
          /\ b[3] = (v \div 1) % 256
      BY <1>2, <2>3, Powers
    <3>2. v < 16777216 BY <1>4, <2>3, Powers, SMT
    <3>3. /\ 65536 * ((v \div 65536) % 256) + 256 * ((v \div 256) % 256)
               + (v % 256) = v
          /\ v \div 1 = v
      BY <3>2, DivMod, SMT
    <3>4. ValueOf(b, w) = 65536 * b[1] + 256 * b[2] + b[3]
      BY <2>3, SMT DEF ValueOf
    <3> QED BY <3>1, <3>3, <3>4, SMT
  <2>4. CASE w = 4
    <3>1. /\ b[1] = (v \div 16777216) % 256 /\ b[2] = (v \div 65536) % 256
          /\ b[3] = (v \div 256) % 256 /\ b[4] = (v \div 1) % 256
      BY <1>2, <2>4, Powers, SMT
    <3>2. /\ 16777216 * ((v \div 16777216) % 256)
               + 65536 * ((v \div 65536) % 256) + 256 * ((v \div 256) % 256)
               + (v % 256) = v
          /\ v \div 1 = v
      BY DivMod, SMT
    <3>3. ValueOf(b, w) = 16777216 * b[1] + 65536 * b[2] + 256 * b[3] + b[4]
      BY <2>4, SMT DEF ValueOf
    <3> QED BY <3>1, <3>2, <3>3, SMT
  <2>5. w = 1 \/ w = 2 \/ w = 3 \/ w = 4 OBVIOUS
  <2> QED BY <2>1, <2>2, <2>3, <2>4, <2>5, Zenon
<1> QED BY <1>1, <1>3, <1>5 DEF b

(* An id that its first byte announces. *)
IsId(id) ==
  \/ 128 <= id /\ id < 256
  \/ 16384 <= id /\ id < 32768
  \/ 2097152 <= id /\ id < 4194304
  \/ 268435456 <= id /\ id < 536870912

LEMMA IdReads ==
  ASSUME NEW id \in Nat, IsId(id)
  PROVE  /\ WriteId(id) \in Seq(Nat)
         /\ Len(WriteId(id)) = ByteWidth(id) /\ ByteWidth(id) \in 1 .. 4
         /\ WriteId(id)[1] \in Announces[ByteWidth(id)]
         /\ ValueOf(WriteId(id), ByteWidth(id)) = id
<1> DEFINE w == ByteWidth(id)
<1>1. w \in 1 .. 4 /\ id <= MaxNumber
  BY ByteWidthIs, SMT DEF IsId, MaxNumber
<1>2. WriteId(id) = BigEndian(id, w) BY Zenon DEF WriteId
<1> HIDE DEF w
<1>3. /\ BigEndian(id, w) \in Seq(Nat) /\ Len(BigEndian(id, w)) = w
      /\ BigEndian(id, w)[1] = (id \div Power256[w]) % 256
      /\ ValueOf(BigEndian(id, w), w) = id
  BY <1>1, BigEndianReads DEF w
<1>4. (id \div Power256[w]) % 256 \in Announces[w]
  <2>1. CASE 128 <= id /\ id < 256
    <3>1. w = 1 BY <2>1, ByteWidthIs, Powers, SMT DEF w
    <3>2. (id \div 1) % 256 = id BY <2>1
    <3> QED BY <2>1, <3>1, <3>2, Powers, Announced
  <2>2. CASE 16384 <= id /\ id < 32768
    <3>1. w = 2 BY <2>2, ByteWidthIs, Powers, SMT DEF w
    <3>2. (id \div 256) % 256 \in 64 .. 127 BY <2>2, SMT
    <3> QED BY <3>1, <3>2, Powers, Announced, SMT
  <2>3. CASE 2097152 <= id /\ id < 4194304
    <3>1. w = 3 BY <2>3, ByteWidthIs, Powers, SMT DEF w
    <3>2. (id \div 65536) % 256 \in 32 .. 63 BY <2>3, SMT
    <3> QED BY <3>1, <3>2, Powers, Announced, SMT
  <2>4. CASE 268435456 <= id /\ id < 536870912
    <3>1. w = 4 BY <2>4, ByteWidthIs, Powers, SMT DEF w
    <3>2. (id \div 16777216) % 256 \in 16 .. 31 BY <2>4, SMT
    <3> QED BY <3>1, <3>2, Powers, Announced, SMT
  <2> QED BY <2>1, <2>2, <2>3, <2>4, SMT DEF IsId
<1> QED BY <1>1, <1>2, <1>3, <1>4, Zenon DEF w

(* Parts of a sequence lie where it lies. *)
LEMMA LiesParts ==
  ASSUME NEW a \in Seq(Nat), NEW b \in Seq(Nat), NEW f \in Seq(Nat),
         NEW i \in Nat \ {0}, Lies(a \o b, f, i)
  PROVE  Lies(a, f, i) /\ Lies(b, f, i + Len(a))
<1>1. /\ Len(a \o b) = Len(a) + Len(b)
      /\ \A j \in 1 .. Len(a) : (a \o b)[j] = a[j]
      /\ \A j \in 1 .. Len(b) : (a \o b)[Len(a) + j] = b[j]
  OBVIOUS
<1>2. Len(a) \in Nat /\ Len(b) \in Nat OBVIOUS
<1> DEFINE c == a \o b
<1> HIDE DEF c
<1>3. Lies(a, f, i)
  <2>1. \A j \in 1 .. Len(a) : j \in 1 .. Len(a) + Len(b) BY <1>2
  <2> QED BY <1>1, <2>1, Zenon DEF Lies, c
<1>4. ASSUME NEW j \in 1 .. Len(b), i + Len(a) + j - 1 <= Len(f)
      PROVE  f[i + Len(a) + j - 1] = b[j]
  <2>1. /\ Len(a) + j \in 1 .. Len(a) + Len(b)
        /\ i + (Len(a) + j) - 1 = i + Len(a) + j - 1
    BY <1>2
  <2> QED BY <1>1, <1>4, <2>1, Zenon DEF Lies
<1> QED BY <1>3, <1>4 DEF Lies

(* Every set of naturals has a least one: induction as it is used below. *)
LEMMA LeastNumber ==
  ASSUME NEW S \in SUBSET Nat, S # {}
  PROVE  \E x \in S : \A m \in S : ~ (m < x)
<1>1. PICK x \in S : \A m \in S : ~ (<< m, x >> \in OpToRel(<, Nat))
  BY NatLessThanWellFounded, WFMin
<1>2. \A m \in S : m < x => << m, x >> \in OpToRel(<, Nat)
  BY DEF OpToRel
<1> QED BY <1>1, <1>2

(* Sequences of the same length and elements are the same. *)
LEMMA SameSeq ==
  ASSUME NEW T, NEW s \in Seq(T), NEW t \in Seq(T), Len(s) = Len(t),
         \A j \in 1 .. Len(t) : s[j] = t[j]
  PROVE  s = t
OBVIOUS

(* What the reader takes for a number is one of the width it has. *)
LEMMA NumberBounds ==
  ASSUME NEW f \in Seq(Nat), NEW i \in Nat \ {0}, IsNumber(f, i)
  PROVE  /\ WidthOf[f[i]] \in 1 .. 4 /\ i + WidthOf[f[i]] <= Len(f) + 1
         /\ NumberAt(f, i) \in Nat /\ NumberAt(f, i) >= Unit[WidthOf[f[i]]]
<1> DEFINE w == WidthOf[f[i]]
           s == SubSeq(f, i, i + w - 1)
<1>1. f[i] \in 16 .. 255 /\ i + w - 1 <= Len(f) BY Zenon DEF IsNumber
<1>2. w \in 1 .. 4 /\ f[i] \in Announces[w] BY <1>1, WidthType
<1> HIDE DEF w
<1>3. s \in Seq(Nat) /\ Len(s) = w /\ s[1] = f[i]
      /\ \A j \in 1 .. w : s[j] \in Nat
  <2>1. i \in Nat /\ i >= 1 /\ i + w - 1 \in Nat /\ Len(f) \in Nat
        /\ i + w - 1 - i + 1 = w /\ i <= i + w - 1
    BY <1>2
  <2>2. s \in Seq(Nat) /\ Len(s) = w /\ s[1] = f[i] BY <1>1, <1>2, <2>1
  <2>3. \A t \in Seq(Nat) : \A j \in 1 .. Len(t) : t[j] \in Nat OBVIOUS
  <2>4. \A j \in 1 .. w : s[j] \in Nat BY <2>2, <2>3, Zenon
  <2> QED BY <2>2, <2>4, Zenon
<1> HIDE DEF s
<1>4. NumberAt(f, i) = Number[s] BY Zenon DEF NumberAt, s, w
<1>5. Number[s] = ValueOf(s, w) /\ Number[s] \in Nat BY <1>2, <1>3, NumberIs
<1>6. ValueOf(s, w) >= Unit[w]
  <2>1. CASE w = 1
    <3>1. s[1] \in 128 .. 255 BY <1>2, <1>3, <2>1, Announced
    <3>2. ValueOf(s, w) = s[1] BY <2>1, SMT DEF ValueOf
    <3>3. Unit[w] = 128 BY <2>1, Units
    <3>4. PICK b \in 128 .. 255 : b = s[1] BY <3>1, Zenon
    <3>5. ValueOf(s, w) = b BY <3>2, <3>4, Zenon
    <3> QED BY <3>3, <3>5
  <2>2. CASE w = 2
    <3>1. s[1] \in 64 .. 127 /\ s[2] \in Nat BY <1>2, <1>3, <2>2, Announced
    <3>2. ValueOf(s, w) = 256 * s[1] + s[2] BY <2>2, SMT DEF ValueOf
    <3>3. \A a \in 64 .. 127 : \A b \in Nat : 256 * a + b >= 16384 OBVIOUS
    <3>4. Unit[w] = 16384 BY <2>2, Units
    <3>5. PICK a \in 64 .. 127, b \in Nat : a = s[1] /\ b = s[2] BY <3>1, Zenon
    <3>6. ValueOf(s, w) = 256 * a + b BY <3>2, <3>5, Zenon
    <3> QED BY <3>3, <3>4, <3>6, SMT
  <2>3. CASE w = 3
    <3>1. s[1] \in 32 .. 63 /\ s[2] \in Nat /\ s[3] \in Nat
      BY <1>2, <1>3, <2>3, Announced
    <3>2. ValueOf(s, w) = 65536 * s[1] + 256 * s[2] + s[3]
      BY <2>3, SMT DEF ValueOf
    <3>3. \A a \in 32 .. 63 : \A b, c \in Nat :
            65536 * a + 256 * b + c >= 2097152
      BY SMT
    <3>4. Unit[w] = 2097152 BY <2>3, Units, SMT
    <3>5. PICK a \in 32 .. 63, b \in Nat, c \in Nat :
            a = s[1] /\ b = s[2] /\ c = s[3]
      BY <3>1, Zenon
    <3>6. ValueOf(s, w) = 65536 * a + 256 * b + c BY <3>2, <3>5, SMT
    <3> QED BY <3>3, <3>4, <3>6, SMT
  <2>4. CASE w = 4
    <3>1. s[1] \in 16 .. 31 /\ s[2] \in Nat /\ s[3] \in Nat /\ s[4] \in Nat
      BY <1>2, <1>3, <2>4, Announced
    <3>2. ValueOf(s, w) = 16777216 * s[1] + 65536 * s[2] + 256 * s[3] + s[4]
      BY <2>4, SMT DEF ValueOf
    <3>3. \A a \in 16 .. 31 : \A b, c, d \in Nat :
            16777216 * a + 65536 * b + 256 * c + d >= 268435456
      BY SMT
    <3>4. Unit[w] = 268435456 BY <2>4, Units, SMT
    <3>5. PICK a \in 16 .. 31, b \in Nat, c \in Nat, d \in Nat :
            a = s[1] /\ b = s[2] /\ c = s[3] /\ d = s[4]
      BY <3>1, Zenon
    <3>6. ValueOf(s, w) = 16777216 * a + 65536 * b + 256 * c + d
      BY <3>2, <3>5, SMT
    <3> QED BY <3>3, <3>4, <3>6, SMT
  <2>5. w = 1 \/ w = 2 \/ w = 3 \/ w = 4 BY <1>2
  <2> QED BY <2>1, <2>2, <2>3, <2>4, <2>5, Zenon
<1>7. i + w <= Len(f) + 1 BY <1>1, <1>2
<1> QED BY <1>2, <1>4, <1>5, <1>6, <1>7, Zenon DEF w

(* An element ends after it begins, and in the file. *)
LEMMA ElementBounds ==
  ASSUME NEW f \in Seq(Nat), NEW i \in Nat \ {0}, IsElement(f, i)
  PROVE  /\ BodyAt(f, i) \in Nat /\ BodyAt(f, i) > i
         /\ EndAt(f, i) \in Nat /\ EndAt(f, i) >= BodyAt(f, i)
         /\ EndAt(f, i) > i /\ EndAt(f, i) <= Len(f) + 1
         /\ NumberAt(f, i) \in Nat
<1> DEFINE z == SizeField(f, i)
<1>1. IsNumber(f, i) /\ IsNumber(f, z) /\ EndAt(f, i) <= Len(f) + 1
  BY Zenon DEF IsElement, IsSize
<1>2. WidthOf[f[i]] \in 1 .. 4 /\ NumberAt(f, i) \in Nat
  BY <1>1, NumberBounds
<1>3. z \in Nat \ {0} /\ z > i BY <1>2, SMTT(30) DEF SizeField
<1> HIDE DEF z
<1>4. /\ WidthOf[f[z]] \in 1 .. 4 /\ NumberAt(f, z) \in Nat
      /\ NumberAt(f, z) >= Unit[WidthOf[f[z]]]
  BY <1>1, <1>3, NumberBounds
<1>5. \A w \in 1 .. 4 : Unit[w] \in Nat BY Units, SMT
<1>6. SizeAt(f, z) \in Nat
  <2>1. Unit[WidthOf[f[z]]] \in Nat BY <1>4, <1>5
  <2> QED BY <1>4, <2>1 DEF SizeAt
<1>7. BodyAt(f, i) = z + WidthOf[f[z]] /\ EndAt(f, i) = BodyAt(f, i) + SizeAt(f, z)
  BY Zenon DEF BodyAt, EndAt, z
<1>8. PICK x \in Nat \ {0}, y \in 1 .. 4, k \in Nat :
        x = z /\ y = WidthOf[f[z]] /\ k = SizeAt(f, z)
  BY <1>3, <1>4, <1>6, Zenon
<1>9. BodyAt(f, i) = x + y /\ EndAt(f, i) = x + y + k /\ x > i
  BY <1>3, <1>7, <1>8, Zenon
<1>10. /\ x + y \in Nat /\ x + y > i /\ x + y + k \in Nat
       /\ x + y + k >= x + y /\ x + y + k > i
  BY <1>9
<1> QED BY <1>1, <1>2, <1>9, <1>10, Zenon

(* The element at i, of n bytes, has this id and payload. *)
ReadsElement(f, i, id, p, n) ==
  /\ IsElement(f, i) /\ NumberAt(f, i) = id /\ EndAt(f, i) = i + n
  /\ SubSeq(f, BodyAt(f, i), EndAt(f, i) - 1) = p

(* An element that lies in a file is read back, or is none if it is cut. *)
LEMMA ElementLies ==
  ASSUME NEW f \in Seq(Nat), NEW i \in Nat \ {0}, NEW id \in Nat, IsId(id),
         NEW p \in Seq(Nat), Len(p) <= LargestSize,
         Lies(Element(id, p), f, i), NEW n \in Nat, n = Len(Element(id, p))
  PROVE  /\ i + n - 1 <= Len(f) => ReadsElement(f, i, id, p, n)
         /\ ~(i + n - 1 <= Len(f)) => ~IsElement(f, i)
<1> DEFINE a == WriteId(id)  z == WriteSize(Len(p))  u == ByteWidth(id)
           at == i + u
<1>1. /\ a \in Seq(Nat) /\ Len(a) = u /\ u \in 1 .. 4
      /\ a[1] \in Announces[u] /\ ValueOf(a, u) = id
  BY IdReads
<1>2. Len(p) \in Nat OBVIOUS
<1>3. PICK v \in 1 .. 4 : ReadsInWidth(z, v, Len(p))
  BY <1>2, SizeRoundTrip DEF ReadsAs, MaxWidth
<1>4. /\ z \in [1 .. v -> 0 .. 255] /\ z[1] \in Announces[v]
      /\ ValueOf(z, v) - SizeLimit[v] = Len(p) /\ Len(p) # SizeLimit[v] - 1
  BY <1>3, Zenon DEF ReadsInWidth
<1>5. Element(id, p) = a \o z \o p BY Zenon DEF Element
<1> HIDE DEF a, z, u
<1>6. z \in Seq(Nat) /\ Len(z) = v
  <2>0. z \in [1 .. v -> 0 .. 255] BY <1>4, Zenon
  <2>1. \A x \in 0 .. 255 : x \in Nat OBVIOUS
  <2>2. z \in [1 .. v -> Nat] BY <2>0, <2>1, Zenon
  <2> QED BY <2>2
<1>7. a \o z \in Seq(Nat) /\ Len(a \o z) = u + v BY <1>1, <1>6
<1>8. n = u + v + Len(p) BY <1>5, <1>6, <1>7
<1>9. Lies(a, f, i) /\ Lies(z, f, at) /\ Lies(p, f, i + (u + v))
  <2>1. Lies(a \o z, f, i) /\ Lies(p, f, i + Len(a \o z))
    BY <1>5, <1>7, LiesParts
  <2>2. Lies(a, f, i) /\ Lies(z, f, i + Len(a))
    BY <1>1, <1>6, <2>1, LiesParts
  <2> QED BY <1>1, <1>7, <2>1, <2>2, Zenon
<1>10. at \in Nat \ {0} BY <1>1
<1> HIDE DEF at
<1>11. /\ i + u - 1 <= Len(f) => /\ IsNumber(f, i) /\ WidthOf[f[i]] = u
                                 /\ NumberAt(f, i) = id
       /\ ~(i + u - 1 <= Len(f)) => ~IsNumber(f, i)
  BY <1>1, <1>9, NumberLies, ZenonT(30)
<1>12. /\ at + v - 1 <= Len(f) => /\ IsNumber(f, at) /\ WidthOf[f[at]] = v
                                  /\ NumberAt(f, at) = ValueOf(z, v)
       /\ ~(at + v - 1 <= Len(f)) => ~IsNumber(f, at)
  <2>1. z[1] \in Announces[v] /\ Lies(z, f, at) BY <1>4, <1>9, Zenon
  <2> QED BY <1>6, <1>10, <2>1, NumberLies
<1>13. CASE ~(i + u - 1 <= Len(f))
  <2>1. ~IsElement(f, i) BY <1>11, <1>13, Zenon DEF IsElement
  <2>2. ~(i + n - 1 <= Len(f)) BY <1>1, <1>2, <1>8, <1>13
  <2> QED BY <2>1, <2>2
<1>14. CASE i + u - 1 <= Len(f)
  <2>1. SizeField(f, i) = at BY <1>11, <1>14, Zenon DEF SizeField, at
  <2>2. CASE ~(at + v - 1 <= Len(f))
    <3>1. ~IsElement(f, i) BY <1>12, <2>1, <2>2, Zenon DEF IsElement, IsSize
    <3>2. ~(i + n - 1 <= Len(f)) BY <1>1, <1>2, <1>8, <2>2 DEF at
    <3> QED BY <3>1, <3>2
  <2>3. CASE at + v - 1 <= Len(f)
    <3>1. BodyAt(f, i) = i + (u + v)
      <4>1. BodyAt(f, i) = at + v BY <1>12, <2>1, <2>3, Zenon DEF BodyAt
      <4> QED BY <1>1, <4>1 DEF at
    <3>2. SizeAt(f, at) = Len(p) /\ IsSize(f, at)
      <4>1. Unit[v] = SizeLimit[v] BY UnitsAreLimits
      <4>2. SizeAt(f, at) = Len(p)
        BY <1>4, <1>12, <2>3, <4>1, Zenon DEF SizeAt
      <4> QED BY <1>4, <1>12, <2>3, <4>1, <4>2, Zenon DEF IsSize
    <3>3. EndAt(f, i) = i + n
      <4>1. EndAt(f, i) = i + (u + v) + Len(p)
        BY <2>1, <3>1, <3>2, Zenon DEF EndAt
      <4> QED BY <1>1, <1>2, <1>8, <4>1
    <3>4. IsElement(f, i) <=> i + n <= Len(f) + 1
      BY <1>11, <1>14, <2>1, <3>2, <3>3, Zenon DEF IsElement
    <3>5. i + n <= Len(f) + 1 <=> i + n - 1 <= Len(f) OBVIOUS
    <3>6. ASSUME i + n - 1 <= Len(f)
          PROVE  SubSeq(f, BodyAt(f, i), EndAt(f, i) - 1) = p
      <4> DEFINE b == i + (u + v)
      <4>1. b \in Nat \ {0} /\ i + n - 1 = b + Len(p) - 1
            /\ b + Len(p) - 1 <= Len(f)
        BY <1>1, <1>2, <1>8, <3>6
      <4>2. Lies(p, f, b) BY <1>9
      <4> HIDE DEF b
      <4>3. SubSeq(f, b, b + Len(p) - 1) \in Seq(Nat)
            /\ Len(SubSeq(f, b, b + Len(p) - 1)) = Len(p)
            /\ \A j \in 1 .. Len(p) :
                 SubSeq(f, b, b + Len(p) - 1)[j] = f[b + j - 1]
        BY <1>2, <4>1
      <4>4. \A j \in 1 .. Len(p) : b + j - 1 <= Len(f) BY <1>2, <4>1
      <4>5. \A j \in 1 .. Len(p) : SubSeq(f, b, b + Len(p) - 1)[j] = p[j]
        BY <4>2, <4>3, <4>4, Zenon DEF Lies
      <4>6. SubSeq(f, b, b + Len(p) - 1) = p BY <4>3, <4>5, SameSeq
      <4>7. BodyAt(f, i) = b /\ EndAt(f, i) - 1 = b + Len(p) - 1
        <5>1. BodyAt(f, i) = b BY <3>1, Zenon DEF b
        <5>2. EndAt(f, i) - 1 = i + n - 1 BY <3>3
        <5> QED BY <4>1, <5>1, <5>2, Zenon
      <4> QED BY <4>6, <4>7, Zenon
    <3> QED BY <1>11, <1>14, <3>3, <3>4, <3>5, <3>6, Zenon DEF ReadsElement
  <2> QED BY <2>2, <2>3
<1> QED BY <1>13, <1>14

(* The payload of the element at i if it has this id. *)
Matching(f, i, id) ==
  IF NumberAt(f, i) = id
  THEN << SubSeq(f, BodyAt(f, i), EndAt(f, i) - 1) >> ELSE << >>

(* What is read of an element is bytes. *)
LEMMA MatchingType ==
  ASSUME NEW f \in Seq(Nat), NEW i \in Nat \ {0}, IsElement(f, i), NEW id
  PROVE  Matching(f, i, id) \in Seq(Seq(Nat))
<1>1. /\ BodyAt(f, i) \in Nat \ {0} /\ EndAt(f, i) \in Nat
      /\ EndAt(f, i) <= Len(f) + 1 /\ EndAt(f, i) >= BodyAt(f, i)
  BY ElementBounds
<1> DEFINE b == BodyAt(f, i)  e == EndAt(f, i)
<1> HIDE DEF b, e
<1>2. SubSeq(f, b, e - 1) \in Seq(Nat) BY <1>1 DEF b, e
<1>3. \A t \in Seq(Nat) : << t >> \in Seq(Seq(Nat)) OBVIOUS
<1>4. << >> \in Seq(Seq(Nat)) OBVIOUS
<1> QED BY <1>2, <1>3, <1>4, Zenon DEF Matching, b, e

(* One round of a recursion to the right over 1 .. N + 1, which has a       *)
(* solution, and only solutions of the type of its pieces.                  *)
Round(g, N, stop, piece, next) ==
  [i \in 1 .. N + 1 |-> IF stop[i] THEN << >> ELSE piece[i] \o g[next[i]]]

LEMMA Rightwards ==
  ASSUME NEW N \in Nat, NEW S, << >> \in S, \A s, t \in S : s \o t \in S,
         NEW stop, NEW piece, NEW next,
         \A i \in 1 .. N + 1 : ~stop[i] =>
           /\ piece[i] \in S /\ next[i] \in 1 .. N + 1 /\ next[i] > i
  PROVE  /\ \E g : g = Round(g, N, stop, piece, next)
         /\ \A g : g = Round(g, N, stop, piece, next) =>
                   \A i \in 1 .. N + 1 : g[i] \in S
<1> DEFINE D == 1 .. N + 1
           Body(g, i) == IF stop[i] THEN << >> ELSE piece[i] \o g[next[i]]
           Part(m) == N + 2 - m .. N + 1
           Solves(g, m) == /\ g \in [Part(m) -> S]
                           /\ \A i \in Part(m) : g[i] = Body(g, i)
<1>1. \A m \in 0 .. N + 1 : \E g : Solves(g, m)
  <2> DEFINE Bad == {m \in 0 .. N + 1 : ~\E g : Solves(g, m)}
  <2> SUFFICES ASSUME Bad # {} PROVE FALSE BY Zenon
  <2>1. Bad \in SUBSET Nat OBVIOUS
  <2>2. PICK m \in Bad : \A k \in Bad : ~(k < m) BY <2>1, LeastNumber
  <2>3. m \in 0 .. N + 1 /\ ~\E g : Solves(g, m) BY <2>2, Zenon
  <2>4. m # 0
    <3>1. \A i : i \notin Part(0) OBVIOUS
    <3> DEFINE g0 == [i \in Part(0) |-> << >>]
    <3>2. g0 \in [Part(0) -> S] BY Zenon
    <3>3. Solves(g0, 0) BY <3>1, <3>2, Zenon
    <3> QED BY <2>3, <3>3, Zenon
  <2>5. m - 1 \in 0 .. N + 1 /\ m - 1 < m BY <2>3, <2>4
  <2>6. PICK g : Solves(g, m - 1) BY <2>2, <2>5, Zenon
  <2>7. g \in [Part(m - 1) -> S] /\ \A i \in Part(m - 1) : g[i] = Body(g, i)
    BY <2>6, Zenon
  <2> DEFINE k == N + 2 - m
             h == [i \in Part(m) |-> IF i = k THEN Body(g, k) ELSE g[i]]
  <2>8. /\ k \in D /\ k \in Part(m)
        /\ \A i \in Part(m) : i \in D /\ (i = k \/ i \in Part(m - 1))
        /\ \A i \in Part(m - 1) : i \in Part(m) /\ i # k
        /\ \A i \in Part(m) : \A j \in D : j > i => j \in Part(m - 1)
    <3>1. m \in Nat /\ m >= 1 /\ m <= N + 1 BY <2>3, <2>4
    <3>2. k \in D /\ k \in Part(m) BY <3>1
    <3>3. \A i \in Part(m) : i \in D /\ (i = k \/ i \in Part(m - 1)) BY <3>1
    <3>4. \A i \in Part(m - 1) : i \in Part(m) /\ i # k BY <3>1
    <3>5. \A i \in Part(m) : \A j \in D : j > i => j \in Part(m - 1) BY <3>1
    <3> QED BY <3>2, <3>3, <3>4, <3>5, Zenon
  <2> HIDE DEF k, Part
  <2>9. \A i \in Part(m) : ~stop[i] => next[i] \in Part(m - 1) /\ piece[i] \in S
    BY <2>8, Zenon
  <2>10. \A i \in Part(m) : Body(g, i) \in S BY <2>7, <2>9, Zenon
  <2>11. \A i \in Part(m - 1) : h[i] = g[i] BY <2>8, Zenon
  <2>12. ASSUME NEW i \in Part(m) PROVE Body(h, i) = Body(g, i)
    <3> HIDE DEF h
    <3>1. ~stop[i] => h[next[i]] = g[next[i]] BY <2>9, <2>11, Zenon
    <3> QED BY <3>1, Zenon
  <2>13. \A i \in Part(m) : h[i] = Body(g, i) BY <2>7, <2>8, Zenon
  <2>14. h \in [Part(m) -> S]
    <3>1. \A i \in Part(m) : (IF i = k THEN Body(g, k) ELSE g[i]) \in S
      BY <2>7, <2>8, <2>10, Zenon
    <3> QED BY <3>1, Zenon
  <2> HIDE DEF h, Body
  <2>15. Solves(h, m) BY <2>12, <2>13, <2>14, Zenon
  <2> QED BY <2>3, <2>15, Zenon
<1>2. N + 1 \in 0 .. N + 1 /\ Part(N + 1) = D OBVIOUS
<1>3. PICK g : g \in [D -> S] /\ \A i \in D : g[i] = Body(g, i)

  <2> HIDE DEF Body, Part, D
  <2>1. \E g : Solves(g, N + 1) BY <1>1, <1>2, Zenon
  <2> QED BY <1>2, <2>1, Zenon
<1> HIDE DEF D
<1>4. g = [i \in D |-> Body(g, i)]
  <2> HIDE DEF Body
  <2> QED BY <1>3, Zenon
<1>5. \A x : [i \in D |-> Body(x, i)] = Round(x, N, stop, piece, next)
  BY Zenon DEF Round, D
<1>6. ASSUME NEW x, x = Round(x, N, stop, piece, next), NEW o \in D
      PROVE  x[o] \in S
  <2> DEFINE Bad == {j \in 0 .. N : x[N + 1 - j] \notin S}
  <2>1. \A i \in D : x[i] = Body(x, i)
    <3>1. x = [i \in D |-> Body(x, i)] BY <1>5, <1>6, Zenon
    <3> HIDE DEF Body
    <3> QED BY <3>1, Zenon
  <2>2. ASSUME Bad # {} PROVE FALSE
    <3>1. Bad \in SUBSET Nat OBVIOUS
    <3>2. PICK j \in Bad : \A k \in Bad : ~(k < j) BY <2>2, <3>1, LeastNumber
    <3> DEFINE i == N + 1 - j
    <3>3. j \in 0 .. N /\ x[i] \notin S BY <3>2, Zenon
    <3>4. i \in D BY <3>3 DEF D
    <3>5. x[i] = Body(x, i) BY <2>1, <3>4, Zenon
    <3>6. ~stop[i] BY <3>3, <3>5, Zenon
    <3>7. piece[i] \in S /\ next[i] \in D /\ next[i] > i
      BY <3>4, <3>6, Zenon DEF D
    <3> DEFINE e == next[i]  k == N + 1 - e
    <3> HIDE DEF e
    <3>8. e \in D /\ e > i BY <3>7 DEF e
    <3>9. k \in 0 .. N /\ k < j /\ N + 1 - k = e BY <3>3, <3>8 DEF D
    <3>10. x[N + 1 - k] \in S
      <4> HIDE DEF k
      <4> QED BY <3>2, <3>9, Zenon
    <3>11. x[e] \in S BY <3>9, <3>10, Zenon
    <3> QED BY <3>3, <3>5, <3>6, <3>7, <3>11, Zenon DEF e
  <2>3. PICK j \in 0 .. N : N + 1 - j = o
    <3>1. N + 1 - o \in 0 .. N /\ N + 1 - (N + 1 - o) = o BY DEF D
    <3> QED BY <3>1
  <2> QED BY <2>2, <2>3, Zenon
<1>7. g = Round(g, N, stop, piece, next) BY <1>4, <1>5, Zenon
<1> QED BY <1>6, <1>7, Zenon DEF D

(* The recursion of Payloads is sound: each element ends after it begins. *)
LEMMA PayloadsAre ==
  ASSUME NEW f \in Seq(Nat), NEW id, NEW start \in 1 .. Len(f) + 1
  PROVE  /\ Payloads(f, start, id) \in Seq(Seq(Nat))
         /\ ~IsElement(f, start) => Payloads(f, start, id) = << >>
         /\ IsElement(f, start) =>
              /\ EndAt(f, start) \in 1 .. Len(f) + 1
              /\ Payloads(f, start, id) =
                   Matching(f, start, id) \o Payloads(f, EndAt(f, start), id)
<1> DEFINE N == Len(f)
           D == 1 .. N + 1
           S == Seq(Seq(Nat))
           stop == [i \in D |-> ~IsElement(f, i)]
           piece == [i \in D |-> Matching(f, i, id)]
           next == [i \in D |-> EndAt(f, i)]
<1>1. N \in Nat /\ << >> \in S /\ start \in D OBVIOUS
<1>2. \A s, t \in S : s \o t \in S OBVIOUS
<1> HIDE DEF S
<1>3. ASSUME NEW i \in D, ~stop[i]
      PROVE  piece[i] \in S /\ next[i] \in D /\ next[i] > i
  <2>6. stop[i] = ~IsElement(f, i) BY Zenon
  <2>7. IsElement(f, i) BY <1>3, <2>6, Zenon
  <2>8. i \in Nat \ {0} BY <1>1
  <2>1. IsElement(f, i) /\ i \in Nat \ {0} BY <2>7, <2>8
  <2>2. EndAt(f, i) \in Nat /\ EndAt(f, i) > i /\ EndAt(f, i) <= N + 1
    BY <2>1, ElementBounds
  <2>3. EndAt(f, i) \in D BY <1>1, <2>1, <2>2
  <2>4. Matching(f, i, id) \in S BY <2>1, MatchingType, Zenon DEF S
  <2>5. piece[i] = Matching(f, i, id) /\ next[i] = EndAt(f, i) BY Zenon
  <2> QED BY <2>2, <2>3, <2>4, <2>5, Zenon
<1> DEFINE R(g) == Round(g, N, stop, piece, next)
           from == CHOOSE g : g = R(g)
<1>4. (\E g : g = R(g)) /\ \A g : g = R(g) => \A i \in D : g[i] \in S
  <2> HIDE DEF N, stop, piece, next
  <2> QED BY <1>1, <1>2, <1>3, Rightwards, Zenon
<1>5. \A g : R(g) = [i \in D |-> IF ~IsElement(f, i) THEN << >>
                               ELSE Matching(f, i, id) \o g[EndAt(f, i)]]
  BY Zenon DEF Round
<1> HIDE DEF D, R
<1>6. \A i : Payloads(f, i, id) = from[i]
  <2>1. from = CHOOSE g : g = [i \in D |-> IF ~IsElement(f, i) THEN << >>
                                 ELSE Matching(f, i, id) \o g[EndAt(f, i)]]
    BY <1>5, Zenon
  <2> HIDE DEF from
  <2> QED BY <2>1, Zenon DEF Payloads, Matching, D
<1>7. from = R(from) BY <1>4, Zenon
<1> HIDE DEF from
<1>8. from[start] \in S BY <1>1, <1>4, <1>7, Zenon
<1>9. from[start] = IF ~IsElement(f, start) THEN << >>
                    ELSE Matching(f, start, id) \o from[EndAt(f, start)]
  BY <1>1, <1>5, <1>7, Zenon
<1>10. IsElement(f, start) => EndAt(f, start) \in 1 .. Len(f) + 1
  BY <1>1, <1>3, Zenon DEF D
<1> QED BY <1>6, <1>8, <1>9, <1>10, Zenon DEF S

(* f is the beginning of out. *)
Begins(f, out) == /\ f \in Seq(Nat) /\ out \in Seq(Nat) /\ Len(f) <= Len(out)
                  /\ \A j \in 1 .. Len(f) : f[j] = out[j]

(* What lies in a file lies in its beginnings. *)
LEMMA LiesInBegin ==
  ASSUME NEW f, NEW out, Begins(f, out), NEW s \in Seq(Nat),
         NEW i \in Nat \ {0}, Lies(s, out, i)
  PROVE  Lies(s, f, i)
<1>1. /\ f \in Seq(Nat) /\ out \in Seq(Nat) /\ Len(f) <= Len(out)
      /\ \A j \in 1 .. Len(f) : f[j] = out[j]
  BY Zenon DEF Begins
<1>2. Len(f) \in Nat /\ Len(out) \in Nat /\ Len(s) \in Nat BY <1>1
<1>3. ASSUME NEW j \in 1 .. Len(s), i + j - 1 <= Len(f)
      PROVE  f[i + j - 1] = s[j]
  <2>1. i + j - 1 \in 1 .. Len(f) /\ i + j - 1 <= Len(out) BY <1>1, <1>2, <1>3
  <2> QED BY <1>1, <2>1, Zenon DEF Lies
<1> QED BY <1>3 DEF Lies

(* A sequence lies in itself. *)
LEMMA LiesInItself ==
  ASSUME NEW s \in Seq(Nat) PROVE Lies(s, s, 1)
<1>1. \A j \in 1 .. Len(s) : 1 + j - 1 = j OBVIOUS
<1> QED BY <1>1, Zenon DEF Lies

(* An element that is read comes before the others, or is passed over for   *)
(* its id.                                                                  *)
GoesOn(f, i, id, p, n, key) ==
  /\ i + n \in 1 .. Len(f) + 1
  /\ Payloads(f, i, key) \in Seq(Seq(Nat))
  /\ Payloads(f, i + n, key) \in Seq(Seq(Nat))
  /\ id = key => Payloads(f, i, key) = << p >> \o Payloads(f, i + n, key)
  /\ id # key => Payloads(f, i, key) = Payloads(f, i + n, key)

LEMMA FirstPayload ==
  ASSUME NEW f \in Seq(Nat), NEW i \in Nat \ {0}, NEW id \in Nat, IsId(id),
         NEW p \in Seq(Nat), Len(p) <= LargestSize,
         Lies(Element(id, p), f, i), NEW n \in Nat, n = Len(Element(id, p)),
         i + n - 1 <= Len(f), NEW key
  PROVE  GoesOn(f, i, id, p, n, key)
<1>1. /\ IsElement(f, i) /\ NumberAt(f, i) = id /\ EndAt(f, i) = i + n
      /\ SubSeq(f, BodyAt(f, i), EndAt(f, i) - 1) = p
  <2>1. ReadsElement(f, i, id, p, n) BY ElementLies, Zenon
  <2> QED BY <2>1, Zenon DEF ReadsElement
<1>2. i \in 1 .. Len(f) + 1 /\ i + n \in 1 .. Len(f) + 1
  BY <1>1, ElementBounds
<1>3. Payloads(f, i, key) = Matching(f, i, key) \o Payloads(f, i + n, key)
  BY <1>1, <1>2, PayloadsAre
<1>4. Payloads(f, i + n, key) \in Seq(Seq(Nat))
      /\ Payloads(f, i, key) \in Seq(Seq(Nat))
  BY <1>2, PayloadsAre, Zenon
<1>5. id = key => Matching(f, i, key) = << p >> BY <1>1, Zenon DEF Matching
<1>6. id # key => Matching(f, i, key) = << >> BY <1>1, Zenon DEF Matching
<1>7. \A s \in Seq(Seq(Nat)) : << >> \o s = s OBVIOUS
<1> QED BY <1>2, <1>3, <1>4, <1>5, <1>6, <1>7, Zenon DEF GoesOn

NoneFrom(f, i, key) == Payloads(f, i, key) = << >>

(* An element the file ends in, and what would come after it, is not read. *)
LEMMA NoPayload ==
  ASSUME NEW f \in Seq(Nat), NEW i \in 1 .. Len(f) + 1, NEW id \in Nat,
         IsId(id), NEW p \in Seq(Nat), Len(p) <= LargestSize, NEW key,
         Lies(Element(id, p), f, i), NEW n \in Nat, n = Len(Element(id, p)),
         ~(i + n - 1 <= Len(f))
  PROVE  NoneFrom(f, i, key)
<1>1. i \in Nat \ {0} OBVIOUS
<1>2. ~IsElement(f, i) BY <1>1, ElementLies, Zenon
<1> QED BY <1>2, PayloadsAre, Zenon DEF NoneFrom

(* The first of several payloads. *)
LEMMA FirstOf ==
  ASSUME NEW T, NEW p \in T, NEW s \in Seq(T)
  PROVE  << p >> \o s # << >> /\ (<< p >> \o s)[1] = p
<1>1. << p >> \o s \in Seq(T) /\ Len(<< p >> \o s) = 1 + Len(s)
      /\ (<< p >> \o s)[1] = p
  OBVIOUS
<1>2. Len(s) \in Nat OBVIOUS
<1>3. Len(<< p >> \o s) # 0 BY <1>1, <1>2
<1> QED BY <1>1, <1>3

(* Nothing is read behind the last byte. *)
LEMMA EndOfPayload ==
  ASSUME NEW f \in Seq(Nat), NEW key
  PROVE  Payloads(f, Len(f) + 1, key) = << >>
<1>1. Len(f) \in Nat /\ Len(f) + 1 \in 1 .. Len(f) + 1 OBVIOUS
<1>2. ~(Len(f) + 1 <= Len(f)) BY <1>1
<1>3. ~IsElement(f, Len(f) + 1) BY <1>2, Zenon DEF IsElement, IsNumber
<1> QED BY <1>1, <1>3, PayloadsAre, Zenon

HasChildren(f, a, p, b, q) == Child(f, a) = p /\ Child(f, b) = q

(* Two elements make a payload: each is its child by its id. *)
LEMMA TwoChildren ==
  ASSUME NEW a \in Nat, NEW b \in Nat, IsId(a), IsId(b), a # b,
         NEW p \in Seq(Nat), NEW q \in Seq(Nat), NEW rest \in Seq(Nat),
         Len(p) <= LargestSize, Len(q) <= LargestSize
  PROVE  HasChildren(Element(a, p) \o Element(b, q) \o rest, a, p, b, q)
<1> DEFINE x == Element(a, p)  y == Element(b, q)  f == x \o y \o rest
<1>1. x \in Seq(Nat) /\ y \in Seq(Nat) BY ElementIs
<1> HIDE DEF x, y
<1>2. PICK m \in Nat, n \in Nat, k \in Nat : m = Len(x) /\ n = Len(y) /\ k = Len(rest)
  BY <1>1
<1>3. x \o y \in Seq(Nat) /\ Len(x \o y) = m + n BY <1>1, <1>2
<1>4. f \in Seq(Nat) /\ Len(f) = m + n + k BY <1>2, <1>3
<1>5. Lies(x, f, 1) /\ Lies(y, f, 1 + m)
  <2>1. Lies(f, f, 1) /\ 1 \in Nat \ {0}
    <3> HIDE DEF f
    <3> QED BY <1>4, LiesInItself
  <2>2. Lies(x \o y, f, 1) BY <1>3, <1>4, <2>1, LiesParts
  <2> HIDE DEF f
  <2> QED BY <1>1, <1>2, <1>4, <2>1, <2>2, LiesParts
<1> HIDE DEF f
<1>6. /\ 1 \in Nat \ {0} /\ 1 + m \in Nat \ {0} /\ 1 + m - 1 <= Len(f)
      /\ 1 + m + n - 1 <= Len(f)
  BY <1>4
<1>7. /\ Lies(Element(a, p), f, 1) /\ m = Len(Element(a, p))
      /\ Lies(Element(b, q), f, 1 + m) /\ n = Len(Element(b, q))
  BY <1>2, <1>5, Zenon DEF x, y
<1>8. /\ Payloads(f, 1, a) = << p >> \o Payloads(f, 1 + m, a)
      /\ Payloads(f, 1 + m, a) \in Seq(Seq(Nat))
      /\ Payloads(f, 1, b) = Payloads(f, 1 + m, b)
  <2>1. GoesOn(f, 1, a, p, m, a) /\ GoesOn(f, 1, a, p, m, b)
    BY <1>4, <1>6, <1>7, FirstPayload, Zenon
  <2> QED BY <2>1, Zenon DEF GoesOn
<1>9. /\ Payloads(f, 1 + m, b) = << q >> \o Payloads(f, 1 + m + n, b)
      /\ Payloads(f, 1 + m + n, b) \in Seq(Seq(Nat))
  <2>1. GoesOn(f, 1 + m, b, q, n, b)
    BY <1>4, <1>6, <1>7, FirstPayload, Zenon
  <2> QED BY <2>1, Zenon DEF GoesOn
<1>10. Payloads(f, 1, a) # << >> /\ Payloads(f, 1, a)[1] = p
  BY <1>8, FirstOf
<1>11. Payloads(f, 1, b) # << >> /\ Payloads(f, 1, b)[1] = q
  BY <1>8, <1>9, FirstOf
<1>12. HasChildren(f, a, p, b, q)
  BY <1>10, <1>11, Zenon DEF Child, HasChildren
<1> QED BY <1>12 DEF f, x, y

(* The ids of the elements of a cluster. *)
LEMMA IdsRead ==
  /\ IsId(EbmlId) /\ IsId(InfoId) /\ IsId(TracksId) /\ IsId(ClusterId)
  /\ IsId(\he7) /\ IsId(\ha3) /\ IsId(\h2ad7b1) /\ IsId(\h4489)
BY SMT DEF IsId, EbmlId, InfoId, TracksId, ClusterId

BlockView(track, pts, data) == [track |-> track, pts |-> pts, data |-> data]

(* Four bytes, then the data. *)
LEMMA AfterHead ==
  ASSUME NEW h \in Seq(Nat), Len(h) = 4, NEW data \in Seq(Nat)
  PROVE  /\ h \o data \in Seq(Nat) /\ Len(h \o data) = 4 + Len(data)
         /\ Len(data) \in Nat
         /\ (h \o data)[1] = h[1] /\ (h \o data)[2] = h[2]
         /\ (h \o data)[3] = h[3]
         /\ SubSeq(h \o data, 5, Len(h \o data)) = data
<1> DEFINE b == h \o data
<1>1. /\ b \in Seq(Nat) /\ Len(b) = 4 + Len(data) /\ Len(data) \in Nat
      /\ \A j \in 1 .. 4 : b[j] = h[j]
      /\ \A j \in 1 .. Len(data) : b[4 + j] = data[j]
  <2>1. \A p, q \in Seq(Nat) :
          /\ p \o q \in Seq(Nat) /\ Len(p \o q) = Len(p) + Len(q)
          /\ Len(q) \in Nat
          /\ \A j \in 1 .. Len(p) : (p \o q)[j] = p[j]
          /\ \A j \in 1 .. Len(q) : (p \o q)[Len(p) + j] = q[j]
    OBVIOUS
  <2> HIDE DEF b
  <2>2. /\ b \in Seq(Nat) /\ Len(b) = Len(h) + Len(data) /\ Len(data) \in Nat
        /\ \A j \in 1 .. Len(h) : b[j] = h[j]
        /\ \A j \in 1 .. Len(data) : b[Len(h) + j] = data[j]
    BY <2>1, Zenon DEF b
  <2> QED BY <2>2, Zenon
<1> HIDE DEF b
<1>2. \A j \in 1 .. 4 : b[j] = h[j] BY <1>1
<1>3. \A j \in 1 .. Len(data) : b[4 + j] = data[j] BY <1>1
<1>4. b[1] = h[1] /\ b[2] = h[2] /\ b[3] = h[3] BY <1>2
<1> DEFINE r == SubSeq(b, 5, Len(b))
<1>5. /\ r \in Seq(Nat) /\ Len(r) = Len(data)
      /\ \A j \in 1 .. Len(data) : r[j] = b[4 + j]
  BY <1>1
<1> HIDE DEF r
<1>6. \A j \in 1 .. Len(data) : r[j] = data[j] BY <1>3, <1>5, Zenon
<1>7. r = data BY <1>5, <1>6, SameSeq
<1> QED BY <1>1, <1>4, <1>7 DEF r, b

(* write_cluster: a reader finds in the cluster the block it was written *)
(* for, its track, its time and its data, whatever they are.             *)
THEOREM ClusterRead ==
  ASSUME NEW pts \in Nat, pts <= MaxNumber, NEW track \in {1, 2},
         NEW data \in Seq(Nat), Len(data) <= MaxData
  PROVE  /\ Cluster(pts, track, data) \in Seq(Nat)
         /\ Len(Cluster(pts, track, data)) <= LargestSize
         /\ BlockOf[Cluster(pts, track, data)] = BlockView(track, pts, data)
<1> DEFINE w == ByteWidth(pts)  t == BigEndian(pts, w)
           h == << 128 + track, 0, 0, 128 >>  b == h \o data
           c == Cluster(pts, track, data)
<1>1. w \in 1 .. 4 BY ByteWidthIs
<1>2. /\ t \in Seq(Nat) /\ Len(t) = w /\ ValueOf(t, w) = pts
  BY <1>1, BigEndianReads, Zenon
<1>3. Number[t] = pts BY <1>1, <1>2, NumberIs
<1>4. h \in Seq(Nat) /\ Len(h) = 4 /\ h[1] = 128 + track /\ h[2] = 0 /\ h[3] = 0
  OBVIOUS
<1>5. c = Element(\he7, t) \o Element(\ha3, b)
  BY SMT DEF Cluster, UintElement
<1> HIDE DEF w, t, h, c
<1>6. /\ b \in Seq(Nat) /\ Len(b) = 4 + Len(data) /\ Len(data) \in Nat
      /\ b[1] = h[1] /\ b[2] = h[2] /\ b[3] = h[3]
      /\ SubSeq(b, 5, Len(b)) = data
  BY <1>4, AfterHead, Zenon
<1> HIDE DEF b
<1>7. Len(b) <= LargestSize /\ Len(t) <= LargestSize
      /\ Len(b) \in Nat /\ Len(t) \in Nat
  BY <1>1, <1>2, <1>6, SMT DEF MaxData, LargestSize
<1>8. PICK a \in Nat, k \in Nat : a = \he7 /\ k = \ha3 BY SMT
<1>9. a # k /\ IsId(a) /\ IsId(k)
  <2>1. IsId(\he7) /\ IsId(\ha3) BY IdsRead, SMT
  <2> QED BY <1>8, <2>1, SMT
<1> DEFINE x == Element(a, t)  y == Element(k, b)
<1>10. c = x \o y BY <1>5, <1>8, SMT
<1>11. /\ x \in Seq(Nat) /\ y \in Seq(Nat)
       /\ Len(x) = ByteWidth(a) + SizeWidth(Len(t)) + Len(t)
       /\ Len(y) = ByteWidth(k) + SizeWidth(Len(b)) + Len(b)
       /\ ByteWidth(a) \in 1 .. 4 /\ SizeWidth(Len(t)) \in 1 .. 4
       /\ ByteWidth(k) \in 1 .. 4 /\ SizeWidth(Len(b)) \in 1 .. 4
  BY <1>2, <1>6, <1>7, ElementIs, Zenon
<1>12. HasChildren(x \o y \o << >>, a, t, k, b)
  <2>1. << >> \in Seq(Nat) OBVIOUS
  <2> QED BY <1>2, <1>6, <1>7, <1>9, <2>1, TwoChildren, Zenon
<1> HIDE DEF x, y
<1>13. Len(x) + Len(y) <= LargestSize /\ Len(x) \in Nat /\ Len(y) \in Nat
  <2>1. PICK x1 \in 1 .. 4, x2 \in 1 .. 4, y1 \in 1 .. 4, y2 \in 1 .. 4 :
          /\ x1 = ByteWidth(a) /\ x2 = SizeWidth(Len(t))
          /\ y1 = ByteWidth(k) /\ y2 = SizeWidth(Len(b))
    BY <1>11, Zenon
  <2>2. PICK m \in 1 .. 4, n \in Nat : m = Len(t) /\ n = Len(data)
    BY <1>1, <1>2, <1>6, Zenon
  <2>3. Len(x) = x1 + x2 + m /\ Len(y) = y1 + y2 + (4 + n)
    BY <1>6, <1>11, <2>1, <2>2, SMT
  <2>4. n <= MaxData BY <2>2
  <2> QED BY <2>3, <2>4, SMT DEF MaxData, LargestSize
<1>14. c \in Seq(Nat) /\ Len(c) <= LargestSize /\ x \o y \o << >> = c
  <2>0. x \in Seq(Nat) /\ y \in Seq(Nat) BY <1>11, Zenon
  <2>1. x \o y \in Seq(Nat) /\ Len(x \o y) = Len(x) + Len(y) BY <2>0
  <2>2. \A s \in Seq(Nat) : s \o << >> = s OBVIOUS
  <2>3. c \in Seq(Nat) /\ Len(c) = Len(x) + Len(y) /\ c \o << >> = c
    BY <1>10, <2>1, <2>2, Zenon
  <2>4. Len(c) <= LargestSize BY <1>13, <2>3, Zenon
  <2> QED BY <1>10, <2>3, <2>4, Zenon
<1>15. Child(c, a) = t /\ Child(c, k) = b
  BY <1>12, <1>14, Zenon DEF HasChildren
<1>16. BlockOf[c] =
         IF Len(Child(c, \ha3)) < 4
         THEN [track |-> 0, pts |-> 0, data |-> << >>]
         ELSE [track |-> Child(c, \ha3)[1] - 128,
               pts |-> Number[Child(c, \he7)] + 256 * Child(c, \ha3)[2]
                       + Child(c, \ha3)[3],
               data |-> SubSeq(Child(c, \ha3), 5, Len(Child(c, \ha3)))]
  <2>2. c \in Octets BY <1>14, Zenon DEF Octets
  <2> QED BY <2>2, SMT DEF BlockOf
<1>17. ~(Len(b) < 4) /\ Child(c, \he7) = t /\ Child(c, \ha3) = b
  BY <1>6, <1>8, <1>15, SMT
<1>18. b[1] - 128 = track /\ Number[t] + 256 * b[2] + b[3] = pts
  <2>1. b[1] = 128 + track /\ b[2] = 0 /\ b[3] = 0 BY <1>4, <1>6, Zenon
  <2> QED BY <1>3, <2>1, SMT
<1>19. BlockOf[c] = BlockView(track, pts, data)
  <2>1. BlockOf[c] = [track |-> b[1] - 128,
                          pts |-> Number[t] + 256 * b[2] + b[3],
                          data |-> SubSeq(b, 5, Len(b))]
    BY <1>16, <1>17, Zenon
  <2> QED BY <1>6, <1>18, <2>1, Zenon DEF BlockView
<1> QED BY <1>14, <1>19, SMT DEF c

-----------------------------------------------------------------------------
(* The Info and its Duration. *)

(* The Info with a Duration, and what the reader makes of it. *)
InfoWith(d) == InfoBeforeDuration \o FloatElement(\h4489, d)
               \o StringElement(\h4d80, "handycam")
               \o StringElement(\h5741, "handycam")

Joined(x, y, z1, z2) ==
  /\ x \o y \o z1 \o z2 = x \o y \o (z1 \o z2)
  /\ x \o y \o z1 \o z2 \in Seq(Nat) /\ z1 \o z2 \in Seq(Nat)
  /\ Len(x \o y \o z1 \o z2) = Len(x) + Len(y) + Len(z1) + Len(z2)

(* Four sequences one after another. *)
LEMMA FourJoined ==
  ASSUME NEW x \in Seq(Nat), NEW y \in Seq(Nat), NEW z1 \in Seq(Nat),
         NEW z2 \in Seq(Nat)
  PROVE  Joined(x, y, z1, z2)
<1>1. /\ x \o y \in Seq(Nat) /\ z1 \o z2 \in Seq(Nat)
      /\ Len(x \o y) = Len(x) + Len(y)
  OBVIOUS
<1> DEFINE p == x \o y
<1> HIDE DEF p
<1>2. p \in Seq(Nat) BY <1>1 DEF p
<1>3. p \o z1 \o z2 = p \o (z1 \o z2) BY <1>2, SMTT(30)
<1>4. /\ p \o z1 \o z2 \in Seq(Nat)
      /\ Len(p \o z1 \o z2) = Len(p) + Len(z1) + Len(z2)
  BY <1>2
<1> QED BY <1>1, <1>3, <1>4 DEF p, Joined

(* The eight bytes of a float are read as the float they are of. *)
LEMMA FloatRead ==
  ASSUME NEW d \in Nat
  PROVE  F64(d) \in Seq(Nat) /\ Len(F64(d)) = 8 /\ FloatOf[F64(d)] = d
<1> DEFINE s == F64(d)
<1>1. s \in Seq(Nat) /\ Len(s) = 8 BY F64Is
<1>2. \A i \in 1 .. 8 : s[i] = 1000 + 8 * d + i BY DEF F64
<1> HIDE DEF s
<1>3. s[1] = 1001 + 8 * d BY <1>2
<1>4. (s[1] - 1001) \div 8 = d
  <2>1. (1001 + 8 * d - 1001) \div 8 = d OBVIOUS
  <2> QED BY <1>3, <2>1
<1>5. FloatOf[s] = IF Len(s) # 8 THEN -1
                   ELSE IF \A i \in 1 .. 8 :
                             s[i] = 1000 + 8 * ((s[1] - 1001) \div 8) + i
                        THEN (s[1] - 1001) \div 8 ELSE -1
  <2>1. s \in Octets BY <1>1 DEF Octets
  <2> QED BY <2>1, SMT DEF FloatOf
<1>6. FloatOf[s] = IF Len(s) # 8 THEN -1
                   ELSE IF \A i \in 1 .. 8 : s[i] = 1000 + 8 * d + i
                        THEN d ELSE -1
  <2> DEFINE v == (s[1] - 1001) \div 8
  <2>1. v = d /\ FloatOf[s] = IF Len(s) # 8 THEN -1
                   ELSE IF \A i \in 1 .. 8 : s[i] = 1000 + 8 * v + i
                        THEN v ELSE -1
    BY <1>4, <1>5, Zenon
  <2> HIDE DEF v
  <2> QED BY <2>1, SMT
<1>7. FloatOf[s] = d BY <1>1, <1>2, <1>6, SMT
<1> QED BY <1>1, <1>7 DEF s

InfoReads(info, k, d) ==
  /\ info \in Seq(Nat) /\ FloatOf[Child(info, k)] = d

(* For the ids a and k of the time scale and of the Duration. *)
LEMMA AnyInfoRead ==
  ASSUME NEW a \in Nat, NEW v \in Nat, NEW k \in Nat, NEW d \in Nat,
         NEW z1 \in Seq(Nat), NEW z2 \in Seq(Nat),
         IsId(a), IsId(k), a # k
  PROVE  InfoReads(UintElement(a, v) \o FloatElement(k, d) \o z1 \o z2, k, d)
<1> DEFINE w == ByteWidth(v)  t == BigEndian(v, w)  u == F64(d)
           x == Element(a, t)  y == Element(k, u)
<1>1. t \in Seq(Nat) /\ Len(t) = w /\ w \in 1 .. 4
  BY ByteWidthType, BigEndianIs
<1>2. u \in Seq(Nat) /\ Len(u) = 8 /\ FloatOf[u] = d BY FloatRead
<1> HIDE DEF t, u, w
<1>3. Len(t) <= LargestSize /\ Len(u) <= LargestSize
  BY <1>1, <1>2, SMT DEF LargestSize
<1>4. x \in Seq(Nat) /\ y \in Seq(Nat) BY <1>1, <1>2, <1>3, ElementIs, Zenon
<1>5. HasChildren(x \o y \o (z1 \o z2), a, t, k, u)
  <2>1. z1 \o z2 \in Seq(Nat) OBVIOUS
  <2> QED BY <1>1, <1>2, <1>3, <2>1, TwoChildren, Zenon
<1>6. x = UintElement(a, v) /\ y = FloatElement(k, d)
  BY Zenon DEF UintElement, FloatElement, t, u, w
<1> HIDE DEF x, y
<1>7. /\ x \o y \o z1 \o z2 = x \o y \o (z1 \o z2)
      /\ x \o y \o z1 \o z2 \in Seq(Nat)
  <2>1. Joined(x, y, z1, z2) BY <1>4, FourJoined, Zenon
  <2> QED BY <2>1, Zenon DEF Joined
<1>8. InfoReads(x \o y \o z1 \o z2, k, d)
  BY <1>2, <1>5, <1>7, Zenon DEF InfoReads, HasChildren
<1> QED BY <1>6, <1>8, Zenon

(* The Info that write_header writes is read with its Duration. *)
LEMMA InfoRead ==
  ASSUME NEW d \in Nat
  PROVE  /\ InfoWith(d) \in Seq(Nat)
         /\ FloatOf[Child(InfoWith(d), \h4489)] = d
<1> DEFINE z1 == StringElement(\h4d80, "handycam")
           z2 == StringElement(\h5741, "handycam")
<1>1. z1 \in Seq(Nat) /\ z2 \in Seq(Nat)
  BY ShortString, SMT DEF Short, Text
<1> HIDE DEF z1, z2
<1>2. PICK a \in Nat, v \in Nat, k \in Nat :
        a = \h2ad7b1 /\ v = 1000000 /\ k = \h4489
  BY SMT
<1>3. InfoWith(d) = UintElement(a, v) \o FloatElement(k, d) \o z1 \o z2
  BY <1>2, SMT DEF InfoWith, InfoBeforeDuration, z1, z2
<1>4. IsId(a) /\ IsId(k) /\ a # k BY <1>2, IdsRead, SMT
<1>5. InfoReads(InfoWith(d), k, d) BY <1>1, <1>3, <1>4, AnyInfoRead, Zenon
<1>6. InfoWith(d) \in Seq(Nat) /\ FloatOf[Child(InfoWith(d), k)] = d
  BY <1>5, Zenon DEF InfoReads
<1> QED BY <1>2, <1>6, SMT

(* The Info of new has a Duration of 0, and any other is as long. *)
LEMMA InfoLength ==
  ASSUME NEW d \in Nat
  PROVE  /\ Len(InfoWith(d)) = Len(Info) /\ Info = InfoWith(0)
         /\ Len(Info) \in Nat /\ Len(Info) <= 65
<1> DEFINE z1 == StringElement(\h4d80, "handycam")
           z2 == StringElement(\h5741, "handycam")
           y(e) == FloatElement(\h4489, e)
<1>1. z1 \in Seq(Nat) /\ z2 \in Seq(Nat)
  BY ShortString, SMT DEF Short, Text
<1>2. PICK k \in Nat : k = \h4489 BY SMT
<1>3. \A e \in Nat : /\ FloatElement(k, e) \in Seq(Nat)
                     /\ Len(FloatElement(k, e)) = ByteWidth(k) + 9
  BY FloatElementIs, Zenon
<1>4. y(d) \in Seq(Nat) /\ y(0) \in Seq(Nat) /\ Len(y(d)) = Len(y(0))
  <2>1. 0 \in Nat OBVIOUS
  <2>2. /\ FloatElement(k, d) \in Seq(Nat) /\ FloatElement(k, 0) \in Seq(Nat)
        /\ Len(FloatElement(k, d)) = Len(FloatElement(k, 0))
    BY <1>3, <2>1, Zenon
  <2> QED BY <1>2, <2>2, SMT
<1>5. InfoBeforeDuration \in Seq(Nat)
  <2>1. \A v \in Nat, i \in Nat : UintElement(i, v) \in Seq(Nat)
    BY UintElementIs, Zenon
  <2> QED BY <2>1, SMT DEF InfoBeforeDuration
<1>6. /\ InfoWith(d) = InfoBeforeDuration \o y(d) \o z1 \o z2
      /\ Info = InfoBeforeDuration \o y(0) \o z1 \o z2
      /\ InfoWith(0) = InfoBeforeDuration \o y(0) \o z1 \o z2
  BY SMT DEF InfoWith, Info
<1> DEFINE yd == y(d)  y0 == y(0)
<1> HIDE DEF z1, z2, y, yd, y0
<1>7. /\ InfoWith(d) = InfoBeforeDuration \o yd \o z1 \o z2
      /\ Info = InfoBeforeDuration \o y0 \o z1 \o z2
      /\ yd \in Seq(Nat) /\ y0 \in Seq(Nat) /\ Len(yd) = Len(y0)
  BY <1>4, <1>6, Zenon DEF yd, y0
<1>8. Len(InfoWith(d)) = Len(Info)
  <2>1. /\ Len(InfoWith(d))
             = Len(InfoBeforeDuration) + Len(yd) + Len(z1) + Len(z2)
        /\ Len(Info)
             = Len(InfoBeforeDuration) + Len(y0) + Len(z1) + Len(z2)
    <3>1. /\ Joined(InfoBeforeDuration, yd, z1, z2)
          /\ Joined(InfoBeforeDuration, y0, z1, z2)
      BY <1>1, <1>5, <1>7, FourJoined, Zenon
    <3> QED BY <1>7, <3>1, Zenon DEF Joined
  <2> QED BY <1>7, <2>1, Zenon
<1>9. Len(Info) \in Nat /\ Len(Info) <= 65 BY ShortInfo DEF Short
<1> QED BY <1>6, <1>8, <1>9, Zenon

-----------------------------------------------------------------------------
(* Clusters one after another. *)

(* The ids that the reader looks for are those the writer writes. *)
LEMMA NamedIds ==
  /\ IsId(EbmlId) /\ IsId(InfoId) /\ IsId(TracksId) /\ IsId(ClusterId)
BY SMT DEF IsId, EbmlId, InfoId, TracksId, ClusterId

PayloadOf(e) == Cluster(e.pts_us \div 1000, TrackOf(e), DataOf(e))
ClusterOf(e) == Element(ClusterId, PayloadOf(e))
ViewOf(e) == BlockView(TrackOf(e), e.pts_us \div 1000, DataOf(e))

(* An event whose cluster is read as it was written. *)
Sound(e) == /\ PayloadOf(e) \in Seq(Nat) /\ Len(PayloadOf(e)) <= LargestSize
            /\ BlockOf[PayloadOf(e)] = ViewOf(e)

(* The clusters of the events lie in out, the n-th before cuts[n]. *)
ClustersLaid(out, cuts, events) ==
  /\ cuts \in [0 .. Len(events) -> Nat] /\ cuts[Len(events)] = Len(out)
  /\ \A n \in 1 .. Len(events) :
       /\ Sound(events[n])
       /\ cuts[n] = cuts[n - 1] + Len(ClusterOf(events[n]))
       /\ Lies(ClusterOf(events[n]), out, cuts[n - 1] + 1)

(* The cluster of a sound event is an element that is read. *)
LEMMA SoundCluster ==
  ASSUME NEW e, Sound(e)
  PROVE  /\ PayloadOf(e) \in Seq(Nat) /\ Len(PayloadOf(e)) <= LargestSize
         /\ BlockOf[PayloadOf(e)] = ViewOf(e)
         /\ ClusterOf(e) \in Seq(Nat) /\ Len(ClusterOf(e)) \in Nat \ {0}
         /\ ClusterId \in Nat /\ IsId(ClusterId)
<1>1. /\ PayloadOf(e) \in Seq(Nat) /\ Len(PayloadOf(e)) <= LargestSize
      /\ BlockOf[PayloadOf(e)] = ViewOf(e)
  BY Zenon DEF Sound
<1> DEFINE p == PayloadOf(e)  c == Element(ClusterId, p)
<1> HIDE DEF p
<1>2. p \in Seq(Nat) /\ Len(p) <= LargestSize BY <1>1, Zenon DEF p
<1>3. ClusterId \in Nat /\ IsId(ClusterId) BY Ids, NamedIds, Zenon
<1>4. /\ c \in Seq(Nat) /\ Len(c) = ByteWidth(ClusterId) + SizeWidth(Len(p)) + Len(p)
      /\ ByteWidth(ClusterId) \in 1 .. 4 /\ SizeWidth(Len(p)) \in 1 .. 4
  BY <1>2, <1>3, ElementIs, Zenon
<1>5. Len(c) \in Nat \ {0}
  <2>1. \A x, y \in 1 .. 4 : \A z \in Nat : x + y + z \in Nat \ {0} OBVIOUS
  <2>2. Len(p) \in Nat BY <1>2
  <2> QED BY <1>4, <2>1, <2>2, Zenon
<1> QED BY <1>1, <1>3, <1>4, <1>5, Zenon DEF ClusterOf, p

(* The cuts grow. *)
LEMMA CutsGrow ==
  ASSUME NEW out, NEW cuts, NEW events, Len(events) \in Nat,
         ClustersLaid(out, cuts, events),
         NEW j \in 0 .. Len(events), NEW n \in j .. Len(events)
  PROVE  cuts[j] <= cuts[n]
<1> DEFINE L == Len(events)
           S == {k \in Nat : j + k <= L /\ ~(cuts[j] <= cuts[j + k])}
<1> HIDE DEF L
<1>1. L \in Nat /\ j \in 0 .. L /\ n \in j .. L BY DEF L
<1>2. /\ cuts \in [0 .. L -> Nat]
      /\ \A m \in 1 .. L : /\ cuts[m] = cuts[m - 1] + Len(ClusterOf(events[m]))
                           /\ Len(ClusterOf(events[m])) \in Nat \ {0}
  BY SoundCluster, Zenon DEF ClustersLaid, L
<1>3. ASSUME S # {} PROVE FALSE
  <2>1. S \in SUBSET Nat OBVIOUS
  <2>2. PICK k \in S : \A m \in S : ~(m < k)
    <3> HIDE DEF S
    <3> QED BY <1>3, <2>1, LeastNumber, Zenon
  <2>3. k \in Nat /\ j + k <= L /\ ~(cuts[j] <= cuts[j + k]) OBVIOUS
  <2>4. j \in 0 .. L /\ j + 0 = j BY <1>1
  <2>5. cuts[j] \in Nat BY <1>2, <2>4
  <2>6. k # 0 BY <2>3, <2>4, <2>5
  <2>7. /\ k - 1 \in Nat /\ k - 1 < k /\ j + (k - 1) <= L
        /\ j + k \in 1 .. L /\ j + k - 1 = j + (k - 1) /\ j + (k - 1) \in 0 .. L
    BY <1>1, <2>3, <2>6
  <2>8. cuts[j] <= cuts[j + (k - 1)] BY <2>2, <2>7
  <2>9. cuts[j + k] = cuts[j + (k - 1)] + Len(ClusterOf(events[j + k]))
    <3>1. cuts[j + k] = cuts[(j + k) - 1] + Len(ClusterOf(events[j + k]))
      BY <1>2, <2>7, Zenon
    <3> QED BY <2>7, <3>1
  <2>10. PICK a \in Nat, b \in Nat, c \in Nat :
           /\ a = cuts[j] /\ b = cuts[j + (k - 1)]
           /\ c = Len(ClusterOf(events[j + k]))
    <3>1. Len(ClusterOf(events[j + k])) \in Nat BY <1>2, <2>7, SMT
    <3>2. cuts[j + (k - 1)] \in Nat BY <1>2, <2>7
    <3> QED BY <2>5, <3>1, <3>2, Zenon
  <2>11. a <= b + c BY <2>8, <2>10
  <2> QED BY <2>3, <2>9, <2>10, <2>11, Zenon
<1>4. n - j \in Nat /\ j + (n - j) = n /\ n <= L BY <1>1
<1>5. n - j \notin S BY <1>3, Zenon
<1> QED BY <1>4, <1>5

(* The first n events, and no more, are whole in the beginning f of out. *)
IsCount(n, f, cuts, events) ==
  /\ n \in 0 .. Len(events)
  /\ n = 0 \/ cuts[n] <= Len(f)
  /\ n = Len(events) \/ Len(f) < cuts[n + 1]

LEMMA CountExists ==
  ASSUME NEW out, NEW cuts, NEW events, Len(events) \in Nat,
         ClustersLaid(out, cuts, events), NEW f, Begins(f, out)
  PROVE  \E n \in 0 .. Len(events) : IsCount(n, f, cuts, events)
<1> DEFINE L == Len(events)
           S == {k \in Nat : k < L /\ Len(f) < cuts[k + 1]}
<1>0. /\ L \in Nat /\ Len(f) \in Nat /\ cuts \in [0 .. L -> Nat]
      /\ cuts[L] = Len(out) /\ Len(f) <= Len(out)
  <2>1. f \in Seq(Nat) /\ Len(f) <= Len(out) BY Zenon DEF Begins
  <2>2. Len(f) \in Nat BY <2>1
  <2> QED BY <2>1, <2>2, Zenon DEF ClustersLaid
<1>1. CASE S = {}
  <2>1. L = 0 \/ cuts[L] <= Len(f)
    <3>1. CASE L # 0
      <4>1. L - 1 \in Nat /\ L - 1 < L /\ L - 1 + 1 = L /\ L \in 0 .. L
        BY <1>0, <3>1
      <4>2. ~(Len(f) < cuts[L]) BY <1>1, <4>1
      <4> QED BY <1>0, <4>1, <4>2
    <3> QED BY <3>1
  <2>2. L \in 0 .. L BY <1>0
  <2> HIDE DEF S
  <2> QED BY <2>1, <2>2, Zenon DEF IsCount
<1>2. CASE S # {}
  <2>1. S \in SUBSET Nat OBVIOUS
  <2>2. PICK k \in S : \A m \in S : ~(m < k)
    <3> HIDE DEF S
    <3> QED BY <1>2, <2>1, LeastNumber, Zenon
  <2>3. k \in 0 .. L /\ Len(f) < cuts[k + 1] /\ k < L BY <1>0
  <2>4. k = 0 \/ cuts[k] <= Len(f)
    <3>1. CASE k # 0
      <4>1. k - 1 \in Nat /\ k - 1 < k /\ k - 1 < L /\ k - 1 + 1 = k
        BY <1>0, <2>3, <3>1
      <4>2. ~(Len(f) < cuts[k]) BY <2>2, <4>1
      <4>3. cuts[k] \in Nat BY <1>0, <2>3
      <4> QED BY <1>0, <4>2, <4>3
    <3> QED BY <3>1
  <2> HIDE DEF S
  <2> QED BY <2>3, <2>4, Zenon DEF IsCount
<1> QED BY <1>1, <1>2

(* The clusters of f, from the end of the header on. *)
ClustersFrom(f, at, events, j, n) ==
  /\ Payloads(f, at, ClusterId) \in Seq(Seq(Nat))
  /\ Len(Payloads(f, at, ClusterId)) = n - j
  /\ \A i \in 1 .. n - j :
       Payloads(f, at, ClusterId)[i] = PayloadOf(events[j + i])

(* After the last whole cluster nothing is read. *)
LEMMA LastCluster ==
  ASSUME NEW out, NEW cuts, NEW events, Len(events) \in Nat,
         ClustersLaid(out, cuts, events), NEW f, Begins(f, out),
         NEW n, IsCount(n, f, cuts, events), cuts[0] <= Len(f)
  PROVE  ClustersFrom(f, cuts[n] + 1, events, n, n)
<1>1. /\ f \in Seq(Nat) /\ Len(f) \in Nat /\ Len(f) <= Len(out)
      /\ out \in Seq(Nat) /\ Len(out) \in Nat
  <2>1. f \in Seq(Nat) /\ Len(f) <= Len(out) /\ out \in Seq(Nat)
    BY Zenon DEF Begins
  <2> QED BY <2>1
<1>2. /\ n \in 0 .. Len(events) /\ cuts[n] \in Nat /\ cuts[n] <= Len(f)
      /\ n = Len(events) \/ Len(f) < cuts[n + 1]
      /\ cuts[Len(events)] = Len(out)
  BY SMT DEF IsCount, ClustersLaid
<1>3. cuts[n] + 1 \in 1 .. Len(f) + 1 /\ cuts[n] + 1 \in Nat \ {0}
  BY <1>1, <1>2
<1>4. Payloads(f, cuts[n] + 1, ClusterId) = << >>
  <2>1. CASE n = Len(events)
    <3>1. cuts[n] + 1 = Len(f) + 1 BY <1>1, <1>2, <2>1
    <3> QED BY <1>1, <3>1, EndOfPayload, Zenon
  <2>2. CASE n # Len(events)
    <3>1. n + 1 \in 1 .. Len(events) /\ (n + 1) - 1 = n /\ Len(f) < cuts[n + 1]
      BY <1>2, <2>2
    <3> DEFINE e == events[n + 1]
    <3>2. /\ Sound(e) /\ cuts[n + 1] = cuts[n] + Len(ClusterOf(e))
          /\ Lies(ClusterOf(e), out, cuts[n] + 1)
      <4>1. /\ Sound(e) /\ cuts[n + 1] = cuts[(n + 1) - 1] + Len(ClusterOf(e))
            /\ Lies(ClusterOf(e), out, cuts[(n + 1) - 1] + 1)
        BY <3>1, Zenon DEF ClustersLaid
      <4> QED BY <3>1, <4>1, Zenon
    <3> HIDE DEF e
    <3>3. /\ PayloadOf(e) \in Seq(Nat) /\ Len(PayloadOf(e)) <= LargestSize
          /\ ClusterOf(e) \in Seq(Nat) /\ Len(ClusterOf(e)) \in Nat
          /\ ClusterId \in Nat /\ IsId(ClusterId)
      BY <3>2, SoundCluster, Zenon
    <3>4. Lies(ClusterOf(e), f, cuts[n] + 1)
      BY <1>3, <3>2, <3>3, LiesInBegin, Zenon
    <3>5. PICK l \in Nat : l = Len(ClusterOf(e)) BY <3>3, Zenon
    <3>6. ~(cuts[n] + 1 + l - 1 <= Len(f)) BY <1>1, <1>2, <3>1, <3>2, <3>5
    <3>7. NoneFrom(f, cuts[n] + 1, ClusterId)
      BY <1>1, <1>3, <3>3, <3>4, <3>5, <3>6, NoPayload, Zenon DEF ClusterOf
    <3> QED BY <3>7, Zenon DEF NoneFrom
  <2> QED BY <2>1, <2>2
<1>5. << >> \in Seq(Seq(Nat)) /\ Len(<< >>) = n - n
      /\ \A i \in 1 .. n - n : FALSE
  BY <1>2
<1> QED BY <1>4, <1>5, Zenon DEF ClustersFrom

(* One cluster before those that are read. *)
LEMMA OneClusterMore ==
  ASSUME NEW out, NEW cuts, NEW events, Len(events) \in Nat,
         ClustersLaid(out, cuts, events), NEW f, Begins(f, out),
         NEW n, IsCount(n, f, cuts, events), NEW j \in 0 .. n - 1,
         ClustersFrom(f, cuts[j + 1] + 1, events, j + 1, n)
  PROVE  ClustersFrom(f, cuts[j] + 1, events, j, n)
<1>1. /\ f \in Seq(Nat) /\ Len(f) \in Nat
  <2>1. f \in Seq(Nat) BY Zenon DEF Begins
  <2> QED BY <2>1
<1>2. /\ n \in 0 .. Len(events) /\ n # 0 /\ cuts[n] <= Len(f)
      /\ j + 1 \in 1 .. Len(events) /\ j + 1 - 1 = j /\ j + 1 \in 0 .. Len(events)
      /\ n \in j + 1 .. Len(events) /\ j \in 0 .. Len(events)
  BY SMT DEF IsCount
<1>3. cuts[j + 1] <= cuts[n] BY <1>2, CutsGrow, Zenon
<1> DEFINE e == events[j + 1]
<1>4. /\ Sound(e) /\ cuts[j + 1] = cuts[j] + Len(ClusterOf(e))
      /\ Lies(ClusterOf(e), out, cuts[j] + 1)
  <2>1. /\ Sound(e) /\ cuts[j + 1] = cuts[(j + 1) - 1] + Len(ClusterOf(e))
        /\ Lies(ClusterOf(e), out, cuts[(j + 1) - 1] + 1)
    BY <1>2, Zenon DEF ClustersLaid
  <2> QED BY <1>2, <2>1
<1>5. cuts \in [0 .. Len(events) -> Nat] BY Zenon DEF ClustersLaid
<1>6. PICK a \in Nat, b \in Nat, c \in Nat :
        a = cuts[j] /\ b = cuts[j + 1] /\ c = cuts[n]
  BY <1>2, <1>5, Zenon
<1>7. a + 1 \in Nat \ {0} /\ b <= Len(f)
  <2>1. b <= c /\ c <= Len(f) BY <1>2, <1>3, <1>6, Zenon
  <2> QED BY <1>1, <2>1
<1>8. /\ PayloadOf(e) \in Seq(Nat) /\ Len(PayloadOf(e)) <= LargestSize
      /\ ClusterOf(e) \in Seq(Nat) /\ Len(ClusterOf(e)) \in Nat
      /\ ClusterId \in Nat /\ IsId(ClusterId)
  BY <1>4, SoundCluster, Zenon
<1> DEFINE p == PayloadOf(e)
<1>9. Lies(Element(ClusterId, p), f, a + 1)
  <2>1. Lies(ClusterOf(e), f, a + 1) BY <1>4, <1>6, <1>7, <1>8, LiesInBegin, Zenon
  <2> QED BY <2>1, Zenon DEF ClusterOf
<1>10. PICK l \in Nat : l = Len(Element(ClusterId, p))
  BY <1>8, Zenon DEF ClusterOf
<1>11. b = a + l /\ a + 1 + l - 1 <= Len(f) /\ a + 1 + l = b + 1
  <2>1. b = a + l BY <1>4, <1>6, <1>10, Zenon DEF ClusterOf
  <2> QED BY <1>7, <2>1
<1> DEFINE u == Payloads(f, a + 1, ClusterId)  v == Payloads(f, b + 1, ClusterId)
<1>12. u = << p >> \o v /\ v \in Seq(Seq(Nat))
  <2> HIDE DEF p
  <2>1. p \in Seq(Nat) /\ Len(p) <= LargestSize BY <1>8, Zenon DEF p
  <2>2. GoesOn(f, a + 1, ClusterId, p, l, ClusterId)
    BY <1>1, <1>7, <1>8, <1>9, <1>10, <1>11, <2>1, FirstPayload, Zenon
  <2> QED BY <1>11, <2>2, Zenon DEF GoesOn
<1>13. /\ Len(v) = n - (j + 1)
       /\ \A i \in 1 .. n - (j + 1) : v[i] = PayloadOf(events[j + 1 + i])
  BY <1>6, Zenon DEF ClustersFrom
<1>14. /\ u \in Seq(Seq(Nat)) /\ Len(u) = n - j /\ u[1] = p
       /\ \A i \in 2 .. n - j : u[i] = v[i - 1]
  <2> HIDE DEF u, v, p
  <2>1. p \in Seq(Nat) BY <1>8, Zenon DEF p
  <2>2. /\ << p >> \o v \in Seq(Seq(Nat)) /\ Len(<< p >> \o v) = Len(v) + 1
        /\ (<< p >> \o v)[1] = p
        /\ \A i \in 2 .. Len(v) + 1 : (<< p >> \o v)[i] = v[i - 1]
    BY <1>12, <2>1, Prepended
  <2>3. n - (j + 1) + 1 = n - j BY <1>2
  <2> QED BY <1>12, <1>13, <2>2, <2>3, Zenon
<1> HIDE DEF u, v
<1>15. ASSUME NEW i \in 1 .. n - j PROVE u[i] = PayloadOf(events[j + i])
  <2>1. CASE i = 1 BY <1>14, <2>1, Zenon DEF p, e
  <2>2. CASE i # 1
    <3>1. i \in 2 .. n - j /\ i - 1 \in 1 .. n - (j + 1)
          /\ j + 1 + (i - 1) = j + i
      BY <1>2, <2>2
    <3> QED BY <1>13, <1>14, <3>1, Zenon
  <2> QED BY <2>1, <2>2
<1> QED BY <1>6, <1>14, <1>15, Zenon DEF ClustersFrom, u

(* All whole clusters are read, from the first on. *)
LEMMA AllClusters ==
  ASSUME NEW out, NEW cuts, NEW events, Len(events) \in Nat,
         ClustersLaid(out, cuts, events), NEW f, Begins(f, out),
         NEW n, IsCount(n, f, cuts, events), cuts[0] <= Len(f)
  PROVE  ClustersFrom(f, cuts[0] + 1, events, 0, n)
<1> DEFINE P(j) == ClustersFrom(f, cuts[j] + 1, events, j, n)
           S == {k \in Nat : k <= n /\ ~P(n - k)}
<1>1. n \in Nat BY DEF IsCount
<1>2. P(n) BY LastCluster
<1>3. \A j \in 0 .. n - 1 : P(j + 1) => P(j) BY OneClusterMore
<1> HIDE DEF P
<1>4. ASSUME S # {} PROVE FALSE
  <2>1. S \in SUBSET Nat OBVIOUS
  <2>2. PICK k \in S : \A m \in S : ~(m < k)
    <3> HIDE DEF S
    <3> QED BY <1>4, <2>1, LeastNumber, Zenon
  <2>3. k \in Nat /\ k <= n /\ ~P(n - k) OBVIOUS
  <2>4. n - 0 = n BY <1>1
  <2>5. k # 0 BY <1>2, <2>3, <2>4
  <2>6. /\ k - 1 \in Nat /\ k - 1 < k /\ k - 1 <= n /\ n - (k - 1) = n - k + 1
        /\ n - k \in 0 .. n - 1 /\ (n - k) + 1 = n - (k - 1)
    BY <1>1, <2>3, <2>5
  <2>7. P(n - (k - 1)) BY <2>2, <2>6
  <2>8. P((n - k) + 1) BY <2>6, <2>7
  <2> QED BY <1>3, <2>3, <2>6, <2>8
<1>5. n <= n /\ n - n = 0 BY <1>1
<1>6. n \notin S BY <1>4, Zenon
<1>7. P(0) BY <1>1, <1>5, <1>6
<1> QED BY <1>7 DEF P

-----------------------------------------------------------------------------
(* The header. *)
EbmlPart == Element(EbmlId, EbmlHeader)
InfoPart(d) == Element(InfoId, InfoWith(d))
TracksPart == Element(TracksId, TrackEntries)

InfoAt == Len(EbmlPart) + 13
TracksAt == InfoAt + Len(InfoPart(0))
HeaderEnd == TracksAt + Len(TracksPart) - 1

HeaderLaid(out, d) ==
  /\ Lies(EbmlPart, out, 1) /\ Lies(SegmentHead, out, Len(EbmlPart) + 1)
  /\ Lies(InfoPart(d), out, InfoAt) /\ Lies(TracksPart, out, TracksAt)

(* The parts of the header are bytes, each an element that is read. *)
LEMMA HeaderParts ==
  ASSUME NEW d \in Nat
  PROVE  /\ EbmlHeader \in Seq(Nat) /\ Len(EbmlHeader) <= LargestSize
         /\ EbmlPart \in Seq(Nat) /\ Len(EbmlPart) \in Nat \ {0}
         /\ InfoWith(d) \in Seq(Nat) /\ Len(InfoWith(d)) <= LargestSize
         /\ InfoPart(d) \in Seq(Nat) /\ Len(InfoPart(d)) \in Nat \ {0}
         /\ Len(InfoPart(d)) = Len(InfoPart(0))
         /\ TrackEntries \in Seq(Nat) /\ Len(TrackEntries) <= LargestSize
         /\ TracksPart \in Seq(Nat) /\ Len(TracksPart) \in Nat \ {0}
         /\ SegmentHead \in Seq(Nat) /\ Len(SegmentHead) = 12
<1>1. /\ EbmlHeader \in Seq(Nat) /\ Len(EbmlHeader) <= LargestSize
      /\ TrackEntries \in Seq(Nat) /\ Len(TrackEntries) <= LargestSize
  <2>1. 93 \in Nat /\ 93 <= 400 /\ 250 \in Nat /\ 250 <= 400 OBVIOUS
  <2>2. Short(EbmlHeader, LargestSize) /\ Short(TrackEntries, LargestSize)
    BY <2>1, ShortEbmlHeader, ShortTrackEntries, ShortFits, Zenon
  <2> QED BY <2>2, Zenon DEF Short
<1>2. \A e \in Nat : /\ InfoWith(e) \in Seq(Nat) /\ Len(InfoWith(e)) = Len(Info)
                     /\ Len(Info) <= LargestSize
  <2>1. Len(Info) \in Nat /\ Len(Info) <= 65 BY InfoLength
  <2>2. Len(Info) <= LargestSize BY <2>1, SMT DEF LargestSize
  <2>3. \A e \in Nat : InfoWith(e) \in Seq(Nat) BY InfoRead, SMT
  <2> QED BY <2>2, <2>3, InfoLength, Zenon
<1>3. /\ EbmlId \in Nat /\ InfoId \in Nat /\ TracksId \in Nat /\ 0 \in Nat
  BY Ids
<1>4. ASSUME NEW id \in Nat, NEW p \in Seq(Nat), Len(p) <= LargestSize
      PROVE  /\ Element(id, p) \in Seq(Nat) /\ Len(Element(id, p)) \in Nat \ {0}
             /\ Len(Element(id, p)) = ByteWidth(id) + SizeWidth(Len(p)) + Len(p)
  <2>1. /\ Element(id, p) \in Seq(Nat)
        /\ Len(Element(id, p)) = ByteWidth(id) + SizeWidth(Len(p)) + Len(p)
        /\ ByteWidth(id) \in 1 .. 4 /\ SizeWidth(Len(p)) \in 1 .. 4
    BY <1>4, ElementIs, Zenon
  <2>2. \A x, y \in 1 .. 4 : \A z \in Nat : x + y + z \in Nat \ {0} OBVIOUS
  <2>3. Len(p) \in Nat BY <1>4
  <2> QED BY <2>1, <2>2, <2>3, Zenon
<1>5. /\ EbmlPart \in Seq(Nat) /\ Len(EbmlPart) \in Nat \ {0}
      /\ TracksPart \in Seq(Nat) /\ Len(TracksPart) \in Nat \ {0}
  BY <1>1, <1>3, <1>4, Zenon DEF EbmlPart, TracksPart
<1>6. \A e \in Nat : /\ InfoPart(e) \in Seq(Nat) /\ Len(InfoPart(e)) \in Nat \ {0}
                     /\ Len(InfoPart(e)) = ByteWidth(InfoId)
                                           + SizeWidth(Len(Info)) + Len(Info)
  <2> TAKE e \in Nat
  <2>1. InfoWith(e) \in Seq(Nat) /\ Len(InfoWith(e)) = Len(Info)
        /\ Len(InfoWith(e)) <= LargestSize
    BY <1>2, Zenon
  <2>2. /\ Element(InfoId, InfoWith(e)) \in Seq(Nat)
        /\ Len(Element(InfoId, InfoWith(e))) \in Nat \ {0}
        /\ Len(Element(InfoId, InfoWith(e))) = ByteWidth(InfoId)
              + SizeWidth(Len(InfoWith(e))) + Len(InfoWith(e))
    BY <1>3, <1>4, <2>1, Zenon
  <2> QED BY <2>1, <2>2, Zenon DEF InfoPart
<1>7. Len(InfoPart(d)) = Len(InfoPart(0)) BY <1>3, <1>6, Zenon
<1>8. SegmentHead \in Seq(Nat) /\ Len(SegmentHead) = 12 BY SMT DEF SegmentHead
<1> QED BY <1>1, <1>2, <1>5, <1>6, <1>7, <1>8, Zenon

(* Where the parts of the header are. *)
LEMMA HeaderPlaces ==
  /\ Len(EbmlPart) + 1 \in Nat \ {0} /\ InfoAt \in Nat \ {0}
  /\ TracksAt \in Nat \ {0} /\ HeaderEnd \in Nat
  /\ Len(EbmlPart) + 12 = InfoAt - 1 /\ InfoAt - 1 \in Nat
  /\ InfoAt + Len(InfoPart(0)) = TracksAt
  /\ TracksAt + Len(TracksPart) = HeaderEnd + 1
  /\ InfoAt <= TracksAt /\ TracksAt <= HeaderEnd
<1>1. PICK a \in Nat \ {0}, b \in Nat \ {0}, c \in Nat \ {0} :
        a = Len(EbmlPart) /\ b = Len(InfoPart(0)) /\ c = Len(TracksPart)
  <2>1. 0 \in Nat OBVIOUS
  <2>2. /\ Len(EbmlPart) \in Nat \ {0} /\ Len(InfoPart(0)) \in Nat \ {0}
        /\ Len(TracksPart) \in Nat \ {0}
    BY <2>1, HeaderParts, Zenon
  <2> QED BY <2>2, Zenon
<1>2. InfoAt = a + 13 /\ TracksAt = a + 13 + b /\ HeaderEnd = a + 13 + b + c - 1
  BY <1>1, Zenon DEF InfoAt, TracksAt, HeaderEnd
<1> QED BY <1>1, <1>2

(* The segment of a file that holds its head. *)
LEMMA SegmentRead ==
  ASSUME NEW f \in Seq(Nat), Lies(EbmlPart, f, 1),
         Lies(SegmentHead, f, Len(EbmlPart) + 1), NEW id
  PROVE  /\ InfoAt <= Len(f) + 1 =>
              /\ InSegment(f, id) = Payloads(f, InfoAt, id)
              /\ InfoAt \in 1 .. Len(f) + 1
         /\ ~(InfoAt <= Len(f) + 1) => InSegment(f, id) = << >>
<1>1. PICK e \in Nat \ {0} : e = Len(EbmlPart) /\ InfoAt = e + 13
  <2>1. 0 \in Nat OBVIOUS
  <2>2. Len(EbmlPart) \in Nat \ {0} BY <2>1, HeaderParts, Zenon
  <2> QED BY <2>2, Zenon DEF InfoAt
<1>2. Len(f) \in Nat OBVIOUS
<1>3. /\ EbmlHeader \in Seq(Nat) /\ Len(EbmlHeader) <= LargestSize
      /\ SegmentHead \in Seq(Nat) /\ Len(SegmentHead) = 12
  <2>1. 0 \in Nat OBVIOUS
  <2> QED BY <2>1, HeaderParts, Zenon
<1>4. EbmlId \in Nat /\ IsId(EbmlId) BY Ids, NamedIds, Zenon
<1>5. /\ 1 + e - 1 <= Len(f) => ReadsElement(f, 1, EbmlId, EbmlHeader, e)
      /\ ~(1 + e - 1 <= Len(f)) => ~IsElement(f, 1)
  <2>1. 1 \in Nat \ {0} /\ e \in Nat OBVIOUS
  <2>2. e = Len(Element(EbmlId, EbmlHeader)) /\ Lies(Element(EbmlId, EbmlHeader), f, 1)
    BY <1>1, Zenon DEF EbmlPart
  <2> QED BY <1>3, <1>4, <2>1, <2>2, ElementLies, Zenon
<1>6. 1 + e - 1 = e /\ 1 + e = e + 1 OBVIOUS
<1>7. CASE ~(e <= Len(f))
  <2>1. ~HasSegment(f) BY <1>5, <1>6, <1>7, SMT DEF HasSegment
  <2>2. ~(InfoAt <= Len(f) + 1) BY <1>1, <1>2, <1>7
  <2> QED BY <2>1, <2>2, Zenon DEF InSegment
<1>8. CASE e <= Len(f)
  <2>1. /\ IsElement(f, 1) /\ NumberAt(f, 1) = EbmlId /\ EndAt(f, 1) = e + 1
    BY <1>5, <1>6, <1>8, Zenon DEF ReadsElement
  <2>2. CASE ~(InfoAt <= Len(f) + 1)
    <3>1. ~(e + 1 + 11 <= Len(f)) BY <1>1, <1>2, <2>2
    <3>2. ~HasSegment(f) BY <2>1, <3>1, SMT DEF HasSegment
    <3> QED BY <2>2, <3>2, Zenon DEF InSegment
  <2>3. CASE InfoAt <= Len(f) + 1
    <3>1. e + 1 + 11 <= Len(f) BY <1>1, <1>2, <2>3
    <3> DEFINE s == SubSeq(f, e + 1, e + 1 + 11)
    <3>2. /\ s \in Seq(Nat) /\ Len(s) = 12
          /\ \A j \in 1 .. 12 : s[j] = f[e + 1 + j - 1]
      BY <1>2, <3>1
    <3> HIDE DEF s
    <3>3. \A j \in 1 .. 12 : e + 1 + j - 1 <= Len(f) BY <1>2, <3>1
    <3>4. \A j \in 1 .. 12 : f[e + 1 + j - 1] = SegmentHead[j]
      BY <1>1, <1>3, <3>3, Zenon DEF Lies
    <3>5. \A j \in 1 .. Len(SegmentHead) : s[j] = SegmentHead[j]
      BY <1>3, <3>2, <3>4, Zenon
    <3>6. s = SegmentHead BY <1>3, <3>2, <3>5, SameSeq
    <3>7. HasSegment(f)
      <4>1. NumberAt(f, 1) = \h1a45dfa3 BY <2>1, SMT DEF EbmlId
      <4>2. SubSeq(f, EndAt(f, 1), EndAt(f, 1) + 11) = SegmentHead
            /\ EndAt(f, 1) + 11 <= Len(f)
        BY <2>1, <3>1, <3>6, Zenon DEF s
      <4> QED BY <2>1, <4>1, <4>2, SMT DEF HasSegment
    <3>8. EndAt(f, 1) + 12 = InfoAt /\ InfoAt \in 1 .. Len(f) + 1
      BY <1>1, <1>2, <2>1, <2>3
    <3> QED BY <2>3, <3>7, <3>8, Zenon DEF InSegment
  <2> QED BY <2>2, <2>3
<1> QED BY <1>7, <1>8

-----------------------------------------------------------------------------
(* Any beginning of a recording, read. *)

(* Where the Info is whole, its Duration is read. *)
LEMMA DurationRead ==
  ASSUME NEW f \in Seq(Nat), NEW d \in Nat
  PROVE  /\ InSegment(f, InfoId) = << >> => InfoDuration[f] = 0
         /\ InSegment(f, InfoId) # << >> /\ InSegment(f, InfoId)[1] = InfoWith(d)
              => InfoDuration[f] = d
<1>1. f \in Octets BY DEF Octets
<1>2. InfoDuration[f] =
        IF InSegment(f, InfoId) = << >> THEN 0
        ELSE FloatOf[Child(InSegment(f, InfoId)[1], \h4489)]
  BY <1>1, SMT DEF InfoDuration, InfoId
<1>3. FloatOf[Child(InfoWith(d), \h4489)] = d BY InfoRead, SMT
<1> QED BY <1>2, <1>3, SMT

Views(events, n) == [i \in 1 .. n |-> ViewOf(events[i])]

(* The clusters that are read are the first events. *)
LEMMA BlocksRead ==
  ASSUME NEW f \in Seq(Nat), NEW n \in Nat, NEW events, NEW c,
         InSegment(f, ClusterId) = c, Len(c) = n,
         \A i \in 1 .. n : BlockOf[c[i]] = ViewOf(events[i])
  PROVE  Blocks[f] = Views(events, n)
<1>1. f \in Octets BY DEF Octets
<1>2. Blocks[f] = [i \in 1 .. Len(c) |-> BlockOf[c[i]]]
  BY <1>1, SMT DEF Blocks, ClusterId
<1>4. Blocks[f] = [i \in 1 .. n |-> BlockOf[c[i]]] BY <1>2, Zenon
<1>5. [i \in 1 .. n |-> BlockOf[c[i]]] = [i \in 1 .. n |-> ViewOf(events[i])]
  BY Zenon
<1> QED BY <1>4, <1>5, Zenon DEF Views

(* The file that out is to become, with this Duration and these events. *)
Laid(out, cuts, d, events) ==
  /\ out \in Seq(Nat) /\ d \in Nat /\ Len(events) \in Nat
  /\ HeaderLaid(out, d)
  /\ ClustersLaid(out, cuts, events) /\ cuts[0] = HeaderEnd

Reads(f, d, events, n) == Blocks[f] = Views(events, n) /\ InfoDuration[f] = d

(* Without clusters no blocks are read. *)
LEMMA NothingRead ==
  ASSUME NEW f \in Seq(Nat), NEW events, InSegment(f, ClusterId) = << >>
  PROVE  Blocks[f] = Views(events, 0)
<1>1. Len(<< >>) = 0 /\ 0 \in Nat OBVIOUS
<1>2. \A i \in 1 .. 0 : FALSE OBVIOUS
<1> QED BY <1>1, <1>2, BlocksRead, Zenon

(* write_header, write_cluster: a file that is cut anywhere, by a crash or *)
(* by what the buffer still holds, is read as its header and the clusters  *)
(* it has whole: nothing of a cut cluster is taken for another.            *)
THEOREM FileRead ==
  ASSUME NEW out, NEW cuts, NEW d, NEW events, Laid(out, cuts, d, events),
         NEW f, Begins(f, out), d = 0 \/ HeaderEnd <= Len(f),
         NEW n, IsCount(n, f, cuts, events)
  PROVE  Reads(f, d, events, n)
<1>1. /\ out \in Seq(Nat) /\ d \in Nat /\ Len(events) \in Nat
      /\ Lies(EbmlPart, out, 1) /\ Lies(SegmentHead, out, Len(EbmlPart) + 1)
      /\ Lies(InfoPart(d), out, InfoAt) /\ Lies(TracksPart, out, TracksAt)
      /\ ClustersLaid(out, cuts, events) /\ cuts[0] = HeaderEnd
  BY Zenon DEF Laid, HeaderLaid
<1>2. f \in Seq(Nat) BY Zenon DEF Begins
<1>3. Len(f) \in Nat BY <1>2
<1>4. /\ EbmlPart \in Seq(Nat) /\ SegmentHead \in Seq(Nat)
      /\ InfoPart(d) \in Seq(Nat) /\ TracksPart \in Seq(Nat)
      /\ InfoWith(d) \in Seq(Nat) /\ Len(InfoWith(d)) <= LargestSize
      /\ TrackEntries \in Seq(Nat) /\ Len(TrackEntries) <= LargestSize
      /\ Len(InfoPart(d)) \in Nat /\ Len(TracksPart) \in Nat
      /\ Len(InfoPart(d)) = Len(InfoPart(0))
  BY <1>1, HeaderParts, Zenon
<1>5. /\ Len(EbmlPart) + 1 \in Nat \ {0} /\ InfoAt \in Nat \ {0}
      /\ TracksAt \in Nat \ {0} /\ HeaderEnd \in Nat
      /\ InfoAt + Len(InfoPart(d)) = TracksAt
      /\ TracksAt + Len(TracksPart) = HeaderEnd + 1
      /\ InfoAt <= TracksAt /\ TracksAt <= HeaderEnd
  BY <1>4, HeaderPlaces, Zenon
<1>6. /\ Lies(EbmlPart, f, 1) /\ Lies(SegmentHead, f, Len(EbmlPart) + 1)
      /\ Lies(InfoPart(d), f, InfoAt) /\ Lies(TracksPart, f, TracksAt)
  <2>1. 1 \in Nat \ {0} OBVIOUS
  <2> QED BY <1>1, <1>4, <1>5, <2>1, LiesInBegin, Zenon
<1>7. /\ InfoId \in Nat /\ TracksId \in Nat /\ ClusterId \in Nat
      /\ IsId(InfoId) /\ IsId(TracksId)
  BY Ids, NamedIds, Zenon
<1>8. InfoId # ClusterId /\ TracksId # ClusterId /\ TracksId # InfoId
  BY SMT DEF InfoId, ClusterId, TracksId
<1>9. ASSUME Len(f) < HeaderEnd PROVE n = 0 /\ d = 0
  <2>1. d = 0 BY <1>3, <1>5, <1>9
  <2>2. n \in 0 .. Len(events) /\ (n = 0 \/ cuts[n] <= Len(f))
    BY Zenon DEF IsCount
  <2>3. 0 \in 0 .. Len(events) BY <1>1
  <2>4. cuts[0] <= cuts[n] BY <1>1, <2>2, <2>3, CutsGrow, Zenon
  <2>5. cuts[n] \in Nat BY <1>1, <2>2, Zenon DEF ClustersLaid
  <2>6. ~(cuts[n] <= Len(f)) BY <1>1, <1>3, <1>5, <1>9, <2>4, <2>5
  <2> QED BY <2>1, <2>2, <2>6, Zenon
<1>10. CASE ~(InfoAt <= Len(f) + 1)
  <2>1. InSegment(f, InfoId) = << >> /\ InSegment(f, ClusterId) = << >>
    BY <1>2, <1>6, <1>10, SegmentRead, Zenon
  <2>2. Len(f) < HeaderEnd BY <1>3, <1>5, <1>10
  <2>3. Blocks[f] = Views(events, 0) BY <1>2, <2>1, NothingRead, Zenon
  <2>4. InfoDuration[f] = 0 BY <1>1, <1>2, <2>1, DurationRead, Zenon
  <2> QED BY <1>9, <2>2, <2>3, <2>4, Zenon DEF Reads
<1>11. CASE InfoAt <= Len(f) + 1 /\ ~(TracksAt <= Len(f) + 1)
  <2>1. /\ InSegment(f, InfoId) = Payloads(f, InfoAt, InfoId)
        /\ InSegment(f, ClusterId) = Payloads(f, InfoAt, ClusterId)
        /\ InfoAt \in 1 .. Len(f) + 1
    BY <1>2, <1>6, <1>11, SegmentRead, Zenon
  <2>2. PICK l \in Nat : l = Len(InfoPart(d)) BY <1>4, Zenon
  <2>3. ~(InfoAt + l - 1 <= Len(f)) BY <1>3, <1>5, <1>11, <2>2
  <2>4. /\ Lies(Element(InfoId, InfoWith(d)), f, InfoAt)
        /\ l = Len(Element(InfoId, InfoWith(d)))
    BY <1>6, <2>2, Zenon DEF InfoPart
  <2>5. /\ Payloads(f, InfoAt, InfoId) = << >>
        /\ Payloads(f, InfoAt, ClusterId) = << >>
    <3>1. NoneFrom(f, InfoAt, InfoId) /\ NoneFrom(f, InfoAt, ClusterId)
      BY <1>2, <1>4, <1>7, <2>1, <2>3, <2>4, NoPayload, Zenon
    <3> QED BY <3>1, Zenon DEF NoneFrom
  <2>6. Len(f) < HeaderEnd BY <1>3, <1>5, <1>11
  <2>7. Blocks[f] = Views(events, 0) BY <1>2, <2>1, <2>5, NothingRead, Zenon
  <2>8. InfoDuration[f] = 0 BY <1>1, <1>2, <2>1, <2>5, DurationRead, Zenon
  <2> QED BY <1>9, <2>6, <2>7, <2>8, Zenon DEF Reads
<1>12. ASSUME TracksAt <= Len(f) + 1
       PROVE  /\ InfoDuration[f] = d /\ TracksAt \in 1 .. Len(f) + 1
              /\ InSegment(f, ClusterId) = Payloads(f, TracksAt, ClusterId)
  <2>1. InfoAt <= Len(f) + 1 /\ TracksAt \in 1 .. Len(f) + 1
    BY <1>3, <1>5, <1>12
  <2>2. /\ InSegment(f, InfoId) = Payloads(f, InfoAt, InfoId)
        /\ InSegment(f, ClusterId) = Payloads(f, InfoAt, ClusterId)
    BY <1>2, <1>6, <2>1, SegmentRead, Zenon
  <2>3. PICK l \in Nat : l = Len(InfoPart(d)) /\ InfoAt + l = TracksAt
    BY <1>4, <1>5, Zenon
  <2>4. InfoAt + l - 1 <= Len(f) BY <1>3, <1>5, <1>12, <2>3
  <2>5. /\ Lies(Element(InfoId, InfoWith(d)), f, InfoAt)
        /\ l = Len(Element(InfoId, InfoWith(d)))
    BY <1>6, <2>3, Zenon DEF InfoPart
  <2>6. /\ GoesOn(f, InfoAt, InfoId, InfoWith(d), l, InfoId)
        /\ GoesOn(f, InfoAt, InfoId, InfoWith(d), l, ClusterId)
    BY <1>2, <1>4, <1>5, <1>7, <2>4, <2>5, FirstPayload, Zenon
  <2>7. /\ Payloads(f, InfoAt, ClusterId) = Payloads(f, TracksAt, ClusterId)
        /\ Payloads(f, InfoAt, InfoId)
             = << InfoWith(d) >> \o Payloads(f, TracksAt, InfoId)
        /\ Payloads(f, TracksAt, InfoId) \in Seq(Seq(Nat))
    BY <1>8, <2>3, <2>6, Zenon DEF GoesOn
  <2>8. /\ InSegment(f, InfoId) # << >>
        /\ InSegment(f, InfoId)[1] = InfoWith(d)
    <3>1. /\ << InfoWith(d) >> \o Payloads(f, TracksAt, InfoId) # << >>
          /\ (<< InfoWith(d) >> \o Payloads(f, TracksAt, InfoId))[1] = InfoWith(d)
      BY <1>4, <2>7, FirstOf
    <3> QED BY <2>2, <2>7, <3>1, Zenon
  <2>9. InfoDuration[f] = d BY <1>1, <1>2, <2>8, DurationRead, Zenon
  <2> QED BY <2>1, <2>2, <2>7, <2>9, Zenon
<1>13. /\ Lies(Element(TracksId, TrackEntries), f, TracksAt)
       /\ Len(TracksPart) = Len(Element(TracksId, TrackEntries))
  BY <1>6, Zenon DEF TracksPart
<1>14. PICK k \in Nat : k = Len(TracksPart) /\ TracksAt + k = HeaderEnd + 1
  BY <1>4, <1>5, Zenon
<1>15. CASE TracksAt <= Len(f) + 1 /\ Len(f) < HeaderEnd
  <2>1. ~(TracksAt + k - 1 <= Len(f)) BY <1>3, <1>5, <1>14, <1>15
  <2>2. /\ InfoDuration[f] = d /\ TracksAt \in 1 .. Len(f) + 1
        /\ InSegment(f, ClusterId) = Payloads(f, TracksAt, ClusterId)
    BY <1>12, <1>15, Zenon
  <2>3. Payloads(f, TracksAt, ClusterId) = << >>
    <3>1. NoneFrom(f, TracksAt, ClusterId)
      BY <1>2, <1>4, <1>7, <1>13, <1>14, <2>1, <2>2, NoPayload, Zenon
    <3> QED BY <3>1, Zenon DEF NoneFrom
  <2>4. Blocks[f] = Views(events, 0) BY <1>2, <2>2, <2>3, NothingRead, Zenon
  <2> QED BY <1>9, <1>15, <2>2, <2>4, Zenon DEF Reads
<1>16. CASE TracksAt <= Len(f) + 1 /\ HeaderEnd <= Len(f)
  <2>1. TracksAt + k - 1 <= Len(f) BY <1>3, <1>5, <1>14, <1>16
  <2>2. /\ InfoDuration[f] = d /\ TracksAt \in 1 .. Len(f) + 1
        /\ InSegment(f, ClusterId) = Payloads(f, TracksAt, ClusterId)
    BY <1>12, <1>16, Zenon
  <2>3. GoesOn(f, TracksAt, TracksId, TrackEntries, k, ClusterId)
    BY <1>2, <1>4, <1>5, <1>7, <1>13, <1>14, <2>1, FirstPayload, Zenon
  <2>4. InSegment(f, ClusterId) = Payloads(f, cuts[0] + 1, ClusterId)
    BY <1>1, <1>8, <1>14, <2>2, <2>3, Zenon DEF GoesOn
  <2>5. ClustersFrom(f, cuts[0] + 1, events, 0, n)
    BY <1>1, <1>16, AllClusters, Zenon
  <2> DEFINE s == Payloads(f, cuts[0] + 1, ClusterId)
  <2>6. /\ n \in Nat /\ n - 0 = n /\ \A i \in 1 .. n : 0 + i = i
        /\ \A i \in 1 .. n : i \in 1 .. Len(events)
    BY <1>1 DEF IsCount
  <2>7. /\ Len(s) = n /\ \A i \in 1 .. n : s[i] = PayloadOf(events[i])
    BY <2>5, <2>6, Zenon DEF ClustersFrom
  <2>8. \A i \in 1 .. n : BlockOf[s[i]] = ViewOf(events[i])
    <3> TAKE i \in 1 .. n
    <3>1. Sound(events[i]) BY <1>1, <2>6, Zenon DEF ClustersLaid
    <3> QED BY <2>7, <3>1, Zenon DEF Sound
  <2> HIDE DEF s
  <2>9. Blocks[f] = Views(events, n)
    <3>1. InSegment(f, ClusterId) = s BY <2>4, Zenon DEF s
    <3> QED BY <1>2, <2>6, <2>7, <2>8, <3>1, BlocksRead, Zenon
  <2> QED BY <2>2, <2>9, Zenon DEF Reads
<1>17. TracksAt <= Len(f) + 1 => Len(f) < HeaderEnd \/ HeaderEnd <= Len(f)
  BY <1>3, <1>5
<1> QED BY <1>10, <1>11, <1>15, <1>16, <1>17, Zenon

-----------------------------------------------------------------------------
(* Parts of files. *)

(* Sequences in a file. *)
LEMMA LiesJoin ==
  ASSUME NEW a \in Seq(Nat), NEW b \in Seq(Nat), NEW f \in Seq(Nat),
         NEW i \in Nat \ {0}, Lies(a, f, i), Lies(b, f, i + Len(a))
  PROVE  Lies(a \o b, f, i)
<1>1. /\ a \o b \in Seq(Nat) /\ Len(a \o b) = Len(a) + Len(b)
      /\ \A j \in 1 .. Len(a) : (a \o b)[j] = a[j]
      /\ \A j \in 1 .. Len(b) : (a \o b)[Len(a) + j] = b[j]
  OBVIOUS
<1>2. PICK m \in Nat, n \in Nat : m = Len(a) /\ n = Len(b)
  BY SMT
<1> DEFINE s == a \o b
<1> HIDE DEF s
<1>3. ASSUME NEW j \in 1 .. m + n, i + j - 1 <= Len(f)
      PROVE  f[i + j - 1] = s[j]
  <2>1. CASE j <= m
    <3>1. j \in 1 .. m BY <2>1
    <3> QED BY <1>1, <1>2, <1>3, <3>1, Zenon DEF Lies, s
  <2>2. CASE ~(j <= m)
    <3>1. /\ j - m \in 1 .. n /\ i + m + (j - m) - 1 = i + j - 1
          /\ m + (j - m) = j
      BY <2>2
    <3>2. f[i + m + (j - m) - 1] = b[j - m]
      BY <1>2, <1>3, <3>1, Zenon DEF Lies
    <3>3. s[m + (j - m)] = b[j - m] BY <1>1, <1>2, <3>1, Zenon DEF s
    <3> QED BY <3>1, <3>2, <3>3, Zenon
  <2> QED BY <2>1, <2>2
<1>4. Len(s) = m + n BY <1>1, <1>2, Zenon DEF s
<1>5. Lies(s, f, i) BY <1>3, <1>4, Zenon DEF Lies
<1> QED BY <1>5 DEF s

(* What lies in a file lies there in its parts. *)
LEMMA LiesCut ==
  ASSUME NEW s \in Seq(Nat), NEW f \in Seq(Nat), NEW i \in Nat \ {0},
         Lies(s, f, i), NEW k \in 0 .. Len(s)
  PROVE  /\ Lies(SubSeq(s, 1, k), f, i)
         /\ Lies(SubSeq(s, k + 1, Len(s)), f, i + k)
<1> DEFINE a == SubSeq(s, 1, k)  b == SubSeq(s, k + 1, Len(s))
<1>1. /\ a \in Seq(Nat) /\ Len(a) = k /\ \A j \in 1 .. k : a[j] = s[j]
  OBVIOUS
<1>2. /\ b \in Seq(Nat) /\ Len(b) = Len(s) - k
      /\ \A j \in 1 .. Len(s) - k : b[j] = s[k + j]
  <2>1. b \in Seq(Nat) /\ Len(b) = Len(s) - k BY Cut
  <2>2. \A j \in 1 .. Len(s) + 1 - (k + 1) : b[j] = s[k + 1 + j - 1] OBVIOUS
  <2>3. ASSUME NEW j \in 1 .. Len(s) - k PROVE b[j] = s[k + j]
    <3>1. j \in 1 .. Len(s) + 1 - (k + 1) /\ k + 1 + j - 1 = k + j OBVIOUS
    <3> HIDE DEF b
    <3> QED BY <2>2, <3>1
  <2> QED BY <2>1, <2>3
<1> HIDE DEF a, b
<1>3. Lies(a, f, i)
  <2>1. \A j \in 1 .. k : j \in 1 .. Len(s) OBVIOUS
  <2> QED BY <1>1, <2>1, Zenon DEF Lies
<1>4. Lies(b, f, i + k)
  <2>1. \A j \in 1 .. Len(s) - k : /\ k + j \in 1 .. Len(s)
                                   /\ i + (k + j) - 1 = i + k + j - 1
    OBVIOUS
  <2>2. ASSUME NEW j \in 1 .. Len(s) - k, i + k + j - 1 <= Len(f)
        PROVE  f[i + k + j - 1] = s[k + j]
    <3>1. k + j \in 1 .. Len(s) /\ i + (k + j) - 1 = i + k + j - 1
      BY <2>1
    <3>2. f[i + (k + j) - 1] = s[k + j] BY <2>2, <3>1, Zenon DEF Lies
    <3> QED BY <3>1, <3>2, Zenon
  <2> QED BY <1>2, <2>2, Zenon DEF Lies
<1> QED BY <1>3, <1>4 DEF a, b

(* A longer file has what the shorter one has. *)
LEMMA LiesFurther ==
  ASSUME NEW f \in Seq(Nat), NEW g \in Seq(Nat), NEW s \in Seq(Nat),
         NEW i \in Nat \ {0}, Lies(s, f, i), i + Len(s) - 1 <= Len(f)
  PROVE  Lies(s, f \o g, i)
<1>1. \A j \in 1 .. Len(f) : (f \o g)[j] = f[j] OBVIOUS
<1>2. \A j \in 1 .. Len(s) : i + j - 1 \in 1 .. Len(f) /\ i + j - 1 <= Len(f)
  OBVIOUS
<1> QED BY <1>1, <1>2, Zenon DEF Lies

(* What lies behind the end has no byte yet. *)
LEMMA LiesAtEnd ==
  ASSUME NEW f \in Seq(Nat), NEW g \in Seq(Nat)
  PROVE  Lies(g, f \o g, Len(f) + 1)
<1>1. \A j \in 1 .. Len(g) : (f \o g)[Len(f) + j] = g[j] OBVIOUS
<1>2. \A j \in 1 .. Len(g) : Len(f) + 1 + j - 1 = Len(f) + j OBVIOUS
<1> QED BY <1>1, <1>2, Zenon DEF Lies

(* A beginning and what comes next is a beginning. *)
LEMMA BeginsFurther ==
  ASSUME NEW f, NEW out, Begins(f, out), NEW g \in Seq(Nat)
  PROVE  Begins(f, out \o g)
<1>1. f \in Seq(Nat) /\ out \in Seq(Nat) /\ Len(f) <= Len(out)
      /\ \A j \in 1 .. Len(f) : f[j] = out[j]
  BY Zenon DEF Begins
<1>2. /\ out \o g \in Seq(Nat) /\ Len(out \o g) = Len(out) + Len(g)
      /\ \A j \in 1 .. Len(out) : (out \o g)[j] = out[j]
  BY <1>1
<1>3. Len(f) <= Len(out \o g) /\ \A j \in 1 .. Len(f) : j \in 1 .. Len(out)
  BY <1>1, <1>2
<1> QED BY <1>1, <1>2, <1>3, Zenon DEF Begins

-----------------------------------------------------------------------------
(* What is in the file and in the buffer is the beginning of out. *)
Agree(out) == /\ Begins(disk, out) /\ Lies(buffer, out, Len(disk) + 1)
              /\ Total <= Len(out)

(* What the buffer takes in is the next of out. *)
LEMMA StoreAgrees ==
  ASSUME FileTypes, position = Len(disk), NEW b \in Seq(Nat), Store(b),
         NEW out, Begins(disk, out), Lies(b, out, Len(disk) + 1),
         Len(disk) + Len(b) <= Len(out)
  PROVE  /\ Begins(disk', out) /\ Len(disk') = Len(disk) + Len(b)
         /\ disk' \in Seq(Nat)
<1>1. /\ disk' \in Seq(Nat) /\ Len(disk') = Len(disk) + Len(b)
      /\ \A i \in 1 .. Len(disk) : disk'[i] = disk[i]
      /\ \A i \in 1 .. Len(b) : disk'[Len(disk) + i] = b[i]
  BY StoreAppends, Zenon
<1>2. /\ out \in Seq(Nat) /\ \A j \in 1 .. Len(disk) : disk[j] = out[j]
      /\ disk \in Seq(Nat)
  BY Zenon DEF Begins
<1>3. PICK m \in Nat, n \in Nat, l \in Nat :
        m = Len(disk) /\ n = Len(b) /\ l = Len(out)
  BY <1>2, SMT
<1>4. ASSUME NEW j \in 1 .. m + n PROVE disk'[j] = out[j]
  <2>1. CASE j <= m
    <3>1. j \in 1 .. m BY <2>1
    <3> QED BY <1>1, <1>2, <1>3, <3>1, Zenon
  <2>2. CASE ~(j <= m)
    <3>1. /\ j - m \in 1 .. n /\ m + (j - m) = j
          /\ m + 1 + (j - m) - 1 = j
      BY <2>2
    <3>2. m + n <= l BY <1>3, Zenon
    <3>3. j <= l BY <3>2
    <3>4. out[m + 1 + (j - m) - 1] = b[j - m]
      BY <1>3, <3>1, <3>3, Zenon DEF Lies
    <3>5. disk'[m + (j - m)] = b[j - m] BY <1>1, <1>3, <3>1, Zenon
    <3> QED BY <3>1, <3>4, <3>5, Zenon
  <2> QED BY <2>1, <2>2
<1>5. Begins(disk', out) BY <1>1, <1>2, <1>3, <1>4, Zenon DEF Begins
<1> QED BY <1>1, <1>5

(* Every event that may come has a cluster that is read back. *)
LEMMA EventSound ==
  ASSUME written \in Seq(Events), NEW event \in Upcoming PROVE Sound(event)
<1>1. PICK c \in Captures :
        IsStrictPrefix(written, c) /\ event = c[Len(written) + 1]
  BY Zenon DEF Upcoming
<1>2. c \in Seq(Events)
      /\ \A i \in DOMAIN c : /\ DataOf(c[i]) \in Seq(Nat)
                             /\ Len(DataOf(c[i])) <= MaxData
                             /\ c[i].pts_us \div 1000 <= MaxPts
  BY WriterAssumption, SMT
<1>3. Len(written) + 1 \in DOMAIN c
  <2>1. /\ Len(written) <= Len(c) /\ written # c
        /\ SubSeq(written, 1, Len(written)) = SubSeq(c, 1, Len(written))
    BY <1>1, Zenon DEF IsStrictPrefix, IsPrefix
  <2>2. \A s \in Seq(Events) : SubSeq(s, 1, Len(s)) = s OBVIOUS
  <2>3. Len(written) # Len(c) BY <1>2, <2>1, <2>2, Zenon
  <2> QED BY <1>2, <2>1, <2>3
<1>4. event \in Events BY <1>1, <1>2, <1>3
<1> DEFINE d == DataOf(event)  p == event.pts_us \div 1000  r == TrackOf(event)
<1>5. d \in Seq(Nat) /\ Len(d) <= MaxData /\ p <= MaxPts
  BY <1>1, <1>2, <1>3, SMT
<1>6. p \in Nat BY <1>4, SMT DEF Events
<1>7. r \in {1, 2} BY DEF TrackOf, VideoTrack, AudioTrack
<1> HIDE DEF d, p, r
<1>8. p <= MaxNumber BY <1>5, SMT DEF MaxPts, MaxNumber
<1>9. /\ Cluster(p, r, d) \in Seq(Nat)
      /\ Len(Cluster(p, r, d)) <= LargestSize
      /\ BlockOf[Cluster(p, r, d)] = BlockView(r, p, d)
  BY <1>5, <1>6, <1>7, <1>8, ClusterRead, SMT
<1> QED BY <1>9, SMT DEF Sound, PayloadOf, ViewOf, d, p, r

-----------------------------------------------------------------------------
(* What the calls of a method are still to write. *)

(* The calls have places in out: what they write lies one after another from *)
(* behind the first t bytes to the end.                                      *)
Placed(cs, at, out) ==
  /\ at \in Seq(Nat) /\ Len(at) = Len(cs) + 1 /\ at[Len(cs) + 1] = Len(out)
  /\ \A i \in 1 .. Len(cs) :
       /\ at[i + 1] = at[i] + SizeOf(cs[i]) /\ at[i + 1] <= Len(out)
       /\ cs[i] \in Writes => Lies(cs[i].bytes, out, at[i] + 1)

Due(cs, t, out) == \E at : Placed(cs, at, out) /\ at[1] = t

(* Nothing is due at the end. *)
LEMMA NoneDue == ASSUME NEW out \in Seq(Nat) PROVE Due(<< >>, Len(out), out)
<1> DEFINE at == << Len(out) >>
<1>1. /\ at \in Seq(Nat) /\ Len(at) = 1 /\ at[1] = Len(out) OBVIOUS
<1>2. Len(<< >>) = 0 /\ 0 + 1 = 1 /\ \A i \in 1 .. 0 : FALSE OBVIOUS
<1> HIDE DEF at
<1>3. Placed(<< >>, at, out) BY <1>1, <1>2, Zenon DEF Placed
<1> QED BY <1>1, <1>3, Zenon DEF Due

(* What is due when no calls are left is nothing. *)
LEMMA DueEnd ==
  ASSUME NEW t, NEW out, Due(<< >>, t, out) PROVE t = Len(out)
<1>1. PICK at : Placed(<< >>, at, out) /\ at[1] = t BY Zenon DEF Due
<1>2. Len(<< >>) = 0 /\ 0 + 1 = 1 OBVIOUS
<1> QED BY <1>1, <1>2, Zenon DEF Placed

(* The first call has its place. *)
LEMMA DueFirst ==
  ASSUME NEW cs \in Seq(Appends), cs # << >>, NEW t, NEW out \in Seq(Nat),
         Due(cs, t, out)
  PROVE  /\ t \in Nat /\ t + SizeOf(cs[1]) <= Len(out)
         /\ cs[1] \in Writes => Lies(cs[1].bytes, out, t + 1)
         /\ Due(Tail(cs), t + SizeOf(cs[1]), out)
<1>1. PICK at : Placed(cs, at, out) /\ at[1] = t BY Zenon DEF Due
<1>2. PICK n \in Nat : n = Len(cs) BY SMT
<1>3. /\ at \in Seq(Nat) /\ Len(at) = n + 1 /\ at[n + 1] = Len(out)
      /\ \A i \in 1 .. n :
           /\ at[i + 1] = at[i] + SizeOf(cs[i]) /\ at[i + 1] <= Len(out)
           /\ cs[i] \in Writes => Lies(cs[i].bytes, out, at[i] + 1)
  BY <1>1, <1>2, Zenon DEF Placed
<1>4. n # 0 /\ 1 \in 1 .. n /\ 1 \in 1 .. n + 1
  BY <1>2
<1> DEFINE bt == Tail(at)  ds == Tail(cs)
<1>5. /\ bt \in Seq(Nat) /\ Len(bt) = n
      /\ \A i \in 1 .. n : bt[i] = at[i + 1]
  BY <1>3, <1>4
<1>6. /\ Len(ds) = n - 1 /\ \A i \in 1 .. n - 1 : ds[i] = cs[i + 1]
  BY <1>2, <1>4
<1> HIDE DEF bt, ds
<1>7. n - 1 + 1 = n /\ n \in 1 .. n /\ 1 + 1 \in 1 .. n + 1
  BY <1>4
<1>8. ASSUME NEW i \in 1 .. n - 1
      PROVE  /\ bt[i + 1] = bt[i] + SizeOf(ds[i]) /\ bt[i + 1] <= Len(out)
             /\ ds[i] \in Writes => Lies(ds[i].bytes, out, bt[i] + 1)
  <2>1. i \in 1 .. n /\ i + 1 \in 1 .. n BY <1>4
  <2>2. /\ bt[i] = at[i + 1] /\ bt[i + 1] = at[i + 1 + 1] /\ ds[i] = cs[i + 1]
    BY <1>5, <1>6, <2>1, Zenon
  <2> QED BY <1>3, <2>1, <2>2, Zenon
<1>9. Placed(ds, bt, out)
  <2>1. bt[n] = Len(out) BY <1>3, <1>5, <1>7, Zenon
  <2> QED BY <1>5, <1>6, <1>7, <1>8, <2>1, Zenon DEF Placed
<1>10. bt[1] = t + SizeOf(cs[1]) BY <1>1, <1>3, <1>4, <1>5, Zenon
<1>11. Due(ds, t + SizeOf(cs[1]), out) BY <1>9, <1>10, Zenon DEF Due
<1>12. t \in Nat BY <1>1, <1>3, <1>4
<1>13. /\ t + SizeOf(cs[1]) <= Len(out)
       /\ cs[1] \in Writes => Lies(cs[1].bytes, out, t + 1)
  BY <1>1, <1>3, <1>4, Zenon
<1> QED BY <1>11, <1>12, <1>13 DEF ds

(* One call before the others. *)
LEMMA DueBefore ==
  ASSUME NEW cs \in Seq(Appends), NEW c \in Appends, NEW t \in Nat,
         NEW out \in Seq(Nat), Due(cs, t + SizeOf(c), out),
         t + SizeOf(c) <= Len(out), c \in Writes => Lies(c.bytes, out, t + 1)
  PROVE  Due(<< c >> \o cs, t, out)
<1>1. PICK at : Placed(cs, at, out) /\ at[1] = t + SizeOf(c) BY Zenon DEF Due
<1>2. PICK n \in Nat : n = Len(cs) BY SMT
<1>3. /\ at \in Seq(Nat) /\ Len(at) = n + 1 /\ at[n + 1] = Len(out)
      /\ \A i \in 1 .. n :
           /\ at[i + 1] = at[i] + SizeOf(cs[i]) /\ at[i + 1] <= Len(out)
           /\ cs[i] \in Writes => Lies(cs[i].bytes, out, at[i] + 1)
  BY <1>1, <1>2, Zenon DEF Placed
<1> DEFINE bt == << t >> \o at  ds == << c >> \o cs
<1>4. /\ bt \in Seq(Nat) /\ Len(bt) = n + 1 + 1 /\ bt[1] = t
      /\ \A i \in 2 .. n + 1 + 1 : bt[i] = at[i - 1]
  <2>1. /\ bt \in Seq(Nat) /\ Len(bt) = Len(at) + 1 /\ bt[1] = t
        /\ \A i \in 2 .. Len(at) + 1 : bt[i] = at[i - 1]
    BY <1>3, Prepended
  <2> HIDE DEF bt
  <2> QED BY <1>3, <2>1, Zenon
<1>5. /\ Len(ds) = n + 1 /\ ds[1] = c /\ \A i \in 2 .. n + 1 : ds[i] = cs[i - 1]
  <2>1. /\ Len(ds) = Len(cs) + 1 /\ ds[1] = c
        /\ \A i \in 2 .. Len(cs) + 1 : ds[i] = cs[i - 1]
    BY Prepended
  <2> HIDE DEF ds
  <2> QED BY <1>2, <2>1, Zenon
<1> HIDE DEF bt, ds
<1>6. ASSUME NEW i \in 1 .. n + 1
      PROVE  /\ bt[i + 1] = bt[i] + SizeOf(ds[i]) /\ bt[i + 1] <= Len(out)
             /\ ds[i] \in Writes => Lies(ds[i].bytes, out, bt[i] + 1)
  <2>1. i + 1 \in 2 .. n + 1 + 1 /\ i + 1 - 1 = i OBVIOUS
  <2>2. bt[i + 1] = at[i] BY <1>4, <2>1
  <2>3. CASE i = 1 BY <1>1, <1>4, <1>5, <2>2, <2>3, Zenon
  <2>4. CASE i # 1
    <3>1. /\ i \in 2 .. n + 1 + 1 /\ i \in 2 .. n + 1 /\ i - 1 \in 1 .. n
          /\ i - 1 + 1 = i
      BY <2>4
    <3>2. bt[i] = at[i - 1] /\ ds[i] = cs[i - 1] BY <1>4, <1>5, <3>1, Zenon
    <3> QED BY <1>3, <2>2, <3>1, <3>2, Zenon
  <2> QED BY <2>3, <2>4
<1>7. bt[n + 1 + 1] = Len(out)
  <2>1. n + 1 + 1 \in 2 .. n + 1 + 1 /\ n + 1 + 1 - 1 = n + 1 OBVIOUS
  <2> QED BY <1>3, <1>4, <2>1
<1>8. Placed(ds, bt, out) BY <1>4, <1>5, <1>6, <1>7, Zenon DEF Placed
<1>9. Due(ds, t, out) BY <1>4, <1>8, Zenon DEF Due
<1> QED BY <1>9 DEF ds

(* What is in the file and in the buffer begins out, and what the calls left *)
(* write is the rest of it.                                                  *)
Ahead(out) == Agree(out) /\ Due(calls, Total, out)

(* What a write copies into the buffer is the next of out. *)
LEMMA CopyAgrees ==
  ASSUME FileTypes, Copy, Call \in Writes, NEW out, Agree(out),
         Lies(Call.bytes, out, Total + 1), Total + SizeOf(Call) <= Len(out),
         Total' = Total + SizeOf(Call)
  PROVE  Agree(out)'
<1>1. buffer' = buffer \o Call.bytes /\ disk' = disk BY Zenon DEF Copy
<1>2. Call.bytes \in Seq(Nat) /\ buffer \in Seq(Nat) /\ disk \in Seq(Nat)
  BY DEF FileTypes, Writes
<1>3. Begins(disk, out) /\ Lies(buffer, out, Len(disk) + 1) /\ out \in Seq(Nat)
  BY Zenon DEF Agree, Begins
<1>4. Len(disk) + 1 \in Nat \ {0} BY <1>2
<1>5. Total + 1 = Len(disk) + 1 + Len(buffer) BY <1>2 DEF Total
<1>6. Lies(buffer \o Call.bytes, out, Len(disk) + 1)
  BY <1>2, <1>3, <1>4, <1>5, LiesJoin, Zenon
<1>7. Total' <= Len(out) BY Zenon
<1> QED BY <1>1, <1>3, <1>6, <1>7, Zenon DEF Agree

(* What is drained from the buffer is the next of the file. *)
LEMMA DrainAgrees ==
  ASSUME FileTypes, position = Len(disk), Drain, NEW out, Agree(out)
  PROVE  Agree(out)'
<1>1. buffer \in Seq(Nat) /\ Len(buffer) \in Nat /\ disk \in Seq(Nat)
      /\ Len(disk) \in Nat
  BY DEF FileTypes
<1>2. PICK k \in Taken(Len(buffer)) :
        /\ Store(SubSeq(buffer, 1, k))
        /\ buffer' = SubSeq(buffer, k + 1, Len(buffer))
  BY Zenon DEF Drain
<1>3. k \in 0 .. Len(buffer) BY <1>1, TakenIs, Zenon
<1>4. /\ SubSeq(buffer, 1, k) \in Seq(Nat) /\ Len(SubSeq(buffer, 1, k)) = k
  BY <1>1, <1>3, Cut
<1>5. /\ Begins(disk, out) /\ Lies(buffer, out, Len(disk) + 1)
      /\ out \in Seq(Nat) /\ Len(disk) + Len(buffer) <= Len(out)
  BY Zenon DEF Agree, Begins, Total
<1>6. Len(disk) + 1 \in Nat \ {0} /\ Len(disk) + 1 + k = Len(disk) + k + 1
      /\ Len(disk) + k <= Len(out)
  BY <1>1, <1>3, <1>5
<1>7. /\ Lies(SubSeq(buffer, 1, k), out, Len(disk) + 1)
      /\ Lies(SubSeq(buffer, k + 1, Len(buffer)), out, Len(disk) + 1 + k)
  BY <1>1, <1>3, <1>5, <1>6, LiesCut, Zenon
<1>8. Begins(disk', out) /\ Len(disk') = Len(disk) + k
  BY <1>2, <1>4, <1>5, <1>6, <1>7, StoreAgrees, Zenon
<1>9. Lies(buffer', out, Len(disk') + 1)
  BY <1>2, <1>6, <1>7, <1>8, Zenon
<1>10. Total' <= Len(out)
  <2>1. Len(disk') + Len(buffer') = Len(disk) + Len(buffer)
    BY DrainAppends, Zenon
  <2> QED BY <1>5, <2>1, Zenon DEF Total
<1> QED BY <1>8, <1>9, <1>10, Zenon DEF Agree

(* A write past the buffer, in part or whole. *)
LEMMA DirectAhead ==
  ASSUME FileTypes, Appending, Direct, Call \in Writes, NEW out, Agree(out),
         Lies(Call.bytes, out, Total + 1), Total + SizeOf(Call) <= Len(out),
         Due(Tail(calls), Total + SizeOf(Call), out)
  PROVE  Ahead(out)'
<1> DEFINE b == Call.bytes
<1>1. b \in Seq(Nat) /\ SizeOf(Call) = Len(b) BY DEF Writes, SizeOf
<1>2. PICK k \in Taken(Len(b)) :
        /\ Store(SubSeq(b, 1, k))
        /\ calls' = IF k = Len(b) THEN Tail(calls)
                    ELSE << Rest(b, k) >> \o Tail(calls)
        /\ buffer' = buffer /\ buffer = << >> /\ calls # << >>
  BY Zenon DEF Direct, Directs
<1> HIDE DEF b
<1>3. Len(b) \in Nat /\ disk \in Seq(Nat) /\ Len(disk) \in Nat
      /\ Len(<< >>) = 0
  BY <1>1 DEF FileTypes
<1>4. k \in 0 .. Len(b) BY <1>3, TakenIs, Zenon
<1>5. /\ SubSeq(b, 1, k) \in Seq(Nat) /\ Len(SubSeq(b, 1, k)) = k
      /\ SubSeq(b, k + 1, Len(b)) \in Seq(Nat)
      /\ Len(SubSeq(b, k + 1, Len(b))) = Len(b) - k
  BY <1>1, <1>4, Cut
<1>6. Total = Len(disk) BY <1>2, <1>3 DEF Total
<1>7. Begins(disk, out) /\ out \in Seq(Nat) /\ position = Len(disk)
  BY Zenon DEF Agree, Begins, Appending
<1>8. /\ Len(disk) + 1 \in Nat \ {0} /\ Len(disk) + k <= Len(out)
      /\ Len(disk) + 1 + k = Len(disk) + k + 1 /\ Len(disk) + k \in Nat
      /\ Len(disk) + k + 0 = Len(disk) + k
      /\ Len(disk) + k + (Len(b) - k) = Len(disk) + Len(b)
  BY <1>1, <1>3, <1>4, <1>6, <1>7
<1>9. /\ Lies(SubSeq(b, 1, k), out, Len(disk) + 1)
      /\ Lies(SubSeq(b, k + 1, Len(b)), out, Len(disk) + k + 1)
  <2>1. Lies(b, out, Len(disk) + 1) BY <1>6, Zenon DEF b
  <2> QED BY <1>1, <1>4, <1>7, <1>8, <2>1, LiesCut, Zenon
<1>10. Begins(disk', out) /\ Len(disk') = Len(disk) + k
  BY <1>2, <1>5, <1>7, <1>8, <1>9, StoreAgrees, Zenon
<1>11. Total' = Len(disk) + k
  <2>1. Total' = Len(disk') + Len(buffer') BY Zenon DEF Total
  <2> QED BY <1>2, <1>3, <1>8, <1>10, <2>1, Zenon
<1>12. Lies(<< >>, out, Len(disk') + 1) BY <1>3 DEF Lies
<1>13. Agree(out)' BY <1>2, <1>8, <1>10, <1>11, <1>12, Zenon DEF Agree
<1>14. Due(calls', Len(disk) + k, out)
  <2>1. CASE k = Len(b) BY <1>1, <1>2, <1>6, <2>1, Zenon
  <2>2. CASE k # Len(b)
    <3> DEFINE w == Rest(b, k)
    <3>1. /\ w \in Writes /\ SizeOf(w) = Len(b) - k
          /\ w.bytes = SubSeq(b, k + 1, Len(b))
      BY <1>5 DEF Writes, SizeOf, Rest
    <3>2. w \in Appends BY <3>1 DEF Appends
    <3>3. calls' = << w >> \o Tail(calls) BY <1>2, <2>2, Zenon
    <3>4. Tail(calls) \in Seq(Appends)
      BY <1>2, FirstCall, Zenon DEF Appending
    <3> HIDE DEF w
    <3>5. Due(Tail(calls), Len(disk) + k + SizeOf(w), out)
          /\ Len(disk) + k + SizeOf(w) <= Len(out)
      BY <1>1, <1>6, <1>8, <3>1, Zenon
    <3>6. Lies(w.bytes, out, Len(disk) + k + 1) BY <1>9, <3>1, Zenon
    <3>7. Due(<< w >> \o Tail(calls), Len(disk) + k, out)
      BY <1>7, <1>8, <3>2, <3>4, <3>5, <3>6, DueBefore, Zenon
    <3> QED BY <3>3, <3>7, Zenon
  <2> QED BY <2>1, <2>2
<1> QED BY <1>11, <1>13, <1>14, Zenon DEF Ahead

(* While a method appends, what is to come stays what was to come. *)
LEMMA AheadStep ==
  ASSUME FileTypes, Appending, calls # << >>, NEW out, Ahead(out),
         Copy \/ Drain \/ Direct \/ SeekDone \/ FlushDone
  PROVE  Ahead(out)'
<1>1. Agree(out) /\ Due(calls, Total, out) /\ out \in Seq(Nat)
      /\ calls \in Seq(Appends)
  BY Zenon DEF Ahead, Agree, Begins, Appending
<1>2. Call = calls[1] /\ Call \in Appends BY <1>1, FirstCall, Zenon
<1>3. /\ Total + SizeOf(Call) <= Len(out)
      /\ Call \in Writes => Lies(Call.bytes, out, Total + 1)
      /\ Due(Tail(calls), Total + SizeOf(Call), out)
  BY <1>1, <1>2, DueFirst, Zenon
<1>4. CASE Copy
  <2>1. Call.op = "write_all" BY <1>4, Zenon DEF Copy, Copies
  <2>2. Call \in Writes BY <1>2, <2>1, AppendsAre, Zenon
  <2>3. calls' = Tail(calls) /\ disk' = disk /\ buffer' = buffer \o Call.bytes
    BY <1>4, Zenon DEF Copy
  <2>4. Total' = Total + SizeOf(Call)
    <3>1. /\ disk \in Seq(Nat) /\ buffer \in Seq(Nat) /\ Call.bytes \in Seq(Nat)
          /\ SizeOf(Call) = Len(Call.bytes)
      BY <1>2, <2>2, AppendsAre, Zenon DEF FileTypes
    <3>2. Len(buffer \o Call.bytes) = Len(buffer) + Len(Call.bytes) BY <3>1
    <3>3. Len(disk) + (Len(buffer) + Len(Call.bytes))
            = Len(disk) + Len(buffer) + Len(Call.bytes)
      <4>1. \A x, y, z \in Nat : x + (y + z) = x + y + z OBVIOUS
      <4>2. Len(disk) \in Nat /\ Len(buffer) \in Nat /\ Len(Call.bytes) \in Nat
        BY <3>1
      <4> QED BY <4>1, <4>2, Zenon
    <3>4. Total' = Len(disk) + Len(buffer \o Call.bytes)
      BY <2>3, Zenon DEF Total
    <3> QED BY <3>1, <3>2, <3>3, <3>4, Zenon DEF Total
  <2>5. Agree(out)' BY <1>1, <1>3, <1>4, <2>2, <2>4, CopyAgrees, Zenon
  <2> QED BY <1>3, <2>3, <2>4, <2>5, Zenon DEF Ahead
<1>5. CASE Drain
  <2>1. Agree(out)' BY <1>1, <1>5, DrainAgrees, Zenon DEF Appending
  <2>2. calls' = calls BY <1>5, Zenon DEF Drain
  <2>3. Total' = Total BY <1>5, DrainAppends, Zenon DEF Total, Appending
  <2> QED BY <1>1, <2>1, <2>2, <2>3, Zenon DEF Ahead
<1>6. CASE Direct
  <2>1. Call.op = "write_all" BY <1>6, Zenon DEF Direct, Directs
  <2>2. Call \in Writes BY <1>2, <2>1, AppendsAre, Zenon
  <2> QED BY <1>1, <1>3, <1>6, <2>2, DirectAhead, Zenon
<1>7. CASE SeekDone \/ FlushDone
  <2>1. /\ calls' = Tail(calls) /\ buffer' = buffer /\ disk' = disk
        /\ Call.op = "seek" \/ Call.op = "flush"
    BY <1>7, Zenon DEF SeekDone, FlushDone, fileVars
  <2>2. Call.op # "write_all" BY <2>1
  <2>3. SizeOf(Call) = 0 BY <1>2, <2>2, AppendsAre, Zenon
  <2>4. Total' = Total BY <2>1, Zenon DEF Total
  <2>5. Total + 0 = Total BY DEF Total, FileTypes
  <2>6. Agree(out)' BY <1>1, <2>1, <2>4, Zenon DEF Agree
  <2> QED BY <1>3, <2>1, <2>3, <2>4, <2>5, <2>6, Zenon DEF Ahead
<1> QED BY <1>4, <1>5, <1>6, <1>7, Zenon

-----------------------------------------------------------------------------
(* A file with another Duration. *)

(* Eight bytes after the first p are others in g than in f. *)
Redone(f, g, p) ==
  /\ f \in Seq(Nat) /\ g \in Seq(Nat) /\ Len(g) = Len(f)
  /\ \A j \in 1 .. Len(f) : g[j] = f[j] \/ j \in p + 1 .. p + 8

LEMMA LiesElsewhere ==
  ASSUME NEW f, NEW g, NEW p \in Nat, Redone(f, g, p), NEW s \in Seq(Nat),
         NEW i \in Nat \ {0}, Lies(s, f, i), i + Len(s) - 1 <= p \/ p + 8 < i
  PROVE  Lies(s, g, i)
<1>1. /\ f \in Seq(Nat) /\ g \in Seq(Nat) /\ Len(g) = Len(f)
      /\ \A j \in 1 .. Len(f) : g[j] = f[j] \/ j \in p + 1 .. p + 8
  BY Zenon DEF Redone
<1>2. Len(f) \in Nat /\ Len(s) \in Nat BY <1>1
<1>3. ASSUME NEW j \in 1 .. Len(s), i + j - 1 <= Len(g)
      PROVE  g[i + j - 1] = s[j]
  <2>1. /\ i + j - 1 \in 1 .. Len(f) /\ i + j - 1 <= Len(f)
        /\ i + j - 1 \notin p + 1 .. p + 8
    BY <1>1, <1>2, <1>3, SMTT(30)
  <2>2. g[i + j - 1] = f[i + j - 1] BY <1>1, <2>1, Zenon
  <2>3. f[i + j - 1] = s[j] BY <2>1, Zenon DEF Lies
  <2> QED BY <2>2, <2>3
<1> QED BY <1>3, Zenon DEF Lies

(* Two sequences joined. *)
LEMMA JoinIs ==
  ASSUME NEW a \in Seq(Nat), NEW b \in Seq(Nat)
  PROVE  a \o b \in Seq(Nat) /\ Len(a \o b) = Len(a) + Len(b)
OBVIOUS

(* Places in a sequence, added up. *)
LEMMA Places ==
  ASSUME NEW i \in Nat \ {0}, NEW a \in Nat, NEW x \in Nat, NEW k \in Nat,
         NEW y \in Nat, NEW p \in Nat, p = i + a + x + k - 1
  PROVE  /\ i + a \in Nat \ {0} /\ i + a + x \in Nat \ {0}
         /\ i + a + x + k \in Nat \ {0}
         /\ i + a + (x + (k + 8)) \in Nat \ {0}
         /\ i + a + (x + (k + 8) + y) \in Nat \ {0}
         /\ p + 1 = i + a + x + k
         /\ i + a - 1 <= p /\ i + a + x - 1 <= p /\ i + a + x + k - 1 <= p
         /\ p + 8 < i + a + (x + (k + 8))
         /\ p + 8 < i + a + (x + (k + 8) + y)
OBVIOUS

(* A sequence with eight bytes u of its own in the midst. *)
Spliced(a, x, k, u, y, z) == a \o (x \o (k \o u) \o y \o z)

Resplices(f, g, p, i, a, x, k, u, v, y, z) ==
  /\ p \in Nat /\ Redone(f, g, p) /\ i \in Nat \ {0}
  /\ a \in Seq(Nat) /\ x \in Seq(Nat) /\ k \in Seq(Nat) /\ y \in Seq(Nat)
  /\ z \in Seq(Nat) /\ u \in Seq(Nat) /\ v \in Seq(Nat)
  /\ Len(u) = 8 /\ Len(v) = 8 /\ p = i + Len(a) + Len(x) + Len(k) - 1
  /\ Lies(Spliced(a, x, k, u, y, z), f, i) /\ Lies(v, g, p + 1)

(* Such a sequence lies in the file with other eight bytes. *)
LEMMA LiesRedone ==
  ASSUME NEW f, NEW g, NEW p, NEW i, NEW a, NEW x, NEW k, NEW u, NEW v,
         NEW y, NEW z, Resplices(f, g, p, i, a, x, k, u, v, y, z)
  PROVE  Lies(Spliced(a, x, k, v, y, z), g, i)
<1>0. /\ p \in Nat /\ Redone(f, g, p) /\ i \in Nat \ {0}
      /\ a \in Seq(Nat) /\ x \in Seq(Nat) /\ k \in Seq(Nat) /\ y \in Seq(Nat)
      /\ z \in Seq(Nat) /\ u \in Seq(Nat) /\ v \in Seq(Nat)
      /\ Len(u) = 8 /\ Len(v) = 8 /\ p = i + Len(a) + Len(x) + Len(k) - 1
      /\ Lies(Spliced(a, x, k, u, y, z), f, i) /\ Lies(v, g, p + 1)
  BY Zenon DEF Resplices
<1> USE <1>0
<1>1. f \in Seq(Nat) /\ g \in Seq(Nat) BY Zenon DEF Redone
<1>2. PICK la \in Nat, lx \in Nat, lk \in Nat, ly \in Nat, lz \in Nat :
        /\ la = Len(a) /\ lx = Len(x) /\ lk = Len(k) /\ ly = Len(y)
        /\ lz = Len(z)
  BY SMT
<1>3. /\ i + la \in Nat \ {0} /\ i + la + lx \in Nat \ {0}
      /\ i + la + lx + lk \in Nat \ {0}
      /\ i + la + (lx + (lk + 8)) \in Nat \ {0}
      /\ i + la + (lx + (lk + 8) + ly) \in Nat \ {0}
      /\ p + 1 = i + la + lx + lk
      /\ i + la - 1 <= p /\ i + la + lx - 1 <= p /\ i + la + lx + lk - 1 <= p
      /\ p + 8 < i + la + (lx + (lk + 8))
      /\ p + 8 < i + la + (lx + (lk + 8) + ly)
  <2>1. p = i + la + lx + lk - 1 BY <1>2, Zenon
  <2> QED BY <2>1, Places, Zenon
<1> DEFINE ku == k \o u  xk == x \o ku  xy == xk \o y  xz == xy \o z
           kv == k \o v  wk == x \o kv  wy == wk \o y  wz == wy \o z
<1>4. /\ ku \in Seq(Nat) /\ kv \in Seq(Nat)
      /\ Len(ku) = Len(k) + Len(u) /\ Len(kv) = Len(k) + Len(v)
  BY JoinIs, Zenon
<1>5. Len(ku) = lk + 8 /\ Len(kv) = lk + 8 BY <1>2, <1>4, Zenon
<1>6. /\ xk \in Seq(Nat) /\ wk \in Seq(Nat)
      /\ Len(xk) = Len(x) + Len(ku) /\ Len(wk) = Len(x) + Len(kv)
  <2> HIDE DEF ku, kv
  <2> QED BY <1>4, JoinIs, Zenon
<1>7. Len(xk) = lx + (lk + 8) /\ Len(wk) = lx + (lk + 8)
  BY <1>2, <1>5, <1>6, Zenon
<1>8. /\ xy \in Seq(Nat) /\ wy \in Seq(Nat)
      /\ Len(xy) = Len(xk) + Len(y) /\ Len(wy) = Len(wk) + Len(y)
  <2> HIDE DEF xk, wk
  <2> QED BY <1>6, JoinIs, Zenon
<1>9. Len(xy) = lx + (lk + 8) + ly /\ Len(wy) = lx + (lk + 8) + ly
  BY <1>2, <1>7, <1>8, Zenon
<1>10. xz \in Seq(Nat) /\ wz \in Seq(Nat)
  <2> HIDE DEF xy, wy
  <2> QED BY <1>8, JoinIs, Zenon
<1>11. Lies(a, f, i) /\ Lies(xz, f, i + la)
  <2>1. Lies(a \o xz, f, i) BY Zenon DEF Spliced
  <2> HIDE DEF xz
  <2> QED BY <1>1, <1>2, <1>10, <2>1, LiesParts, Zenon
<1>12. Lies(xy, f, i + la) /\ Lies(z, f, i + la + (lx + (lk + 8) + ly))
  BY <1>1, <1>3, <1>8, <1>9, <1>11, LiesParts, Zenon
<1>13. Lies(xk, f, i + la) /\ Lies(y, f, i + la + (lx + (lk + 8)))
  BY <1>1, <1>3, <1>6, <1>7, <1>12, LiesParts, Zenon
<1>14. Lies(x, f, i + la) /\ Lies(ku, f, i + la + lx)
  BY <1>1, <1>2, <1>3, <1>4, <1>13, LiesParts, Zenon
<1>15. Lies(k, f, i + la + lx)
  BY <1>1, <1>3, <1>14, LiesParts, Zenon
<1>16. Lies(a, g, i) /\ Lies(x, g, i + la) /\ Lies(k, g, i + la + lx)
  <2>1. /\ i + Len(a) - 1 <= p /\ i + la + Len(x) - 1 <= p
        /\ i + la + lx + Len(k) - 1 <= p
    BY <1>2, <1>3, Zenon
  <2> QED BY <1>3, <1>11, <1>14, <1>15, <2>1, LiesElsewhere, ZenonT(30)
<1>17. /\ Lies(y, g, i + la + (lx + (lk + 8)))
       /\ Lies(z, g, i + la + (lx + (lk + 8) + ly))
  BY <1>3, <1>12, <1>13, LiesElsewhere, Zenon
<1>18. Lies(kv, g, i + la + lx)
  BY <1>1, <1>2, <1>3, <1>16, LiesJoin, Zenon
<1>19. Lies(wk, g, i + la)
  <2> HIDE DEF kv
  <2> QED BY <1>1, <1>2, <1>3, <1>4, <1>16, <1>18, LiesJoin, Zenon
<1>20. Lies(wy, g, i + la)
  <2> HIDE DEF wk
  <2> QED BY <1>1, <1>3, <1>6, <1>7, <1>17, <1>19, LiesJoin, Zenon
<1>21. Lies(wz, g, i + la)
  <2> HIDE DEF wy
  <2> QED BY <1>1, <1>3, <1>8, <1>9, <1>17, <1>20, LiesJoin, Zenon
<1>22. Lies(a \o wz, g, i)
  <2> HIDE DEF wz
  <2> QED BY <1>1, <1>2, <1>10, <1>16, <1>21, LiesJoin, Zenon
<1> QED BY <1>22, Zenon DEF Spliced

(* The Info around its Duration. *)
Around(a, x, k, y, z) ==
  /\ a \in Seq(Nat) /\ x \in Seq(Nat) /\ k \in Seq(Nat)
  /\ y \in Seq(Nat) /\ z \in Seq(Nat)
  /\ \A d \in Nat : InfoPart(d) = Spliced(a, x, k, F64(d), y, z)
  /\ DurationOffset = InfoAt + Len(a) + Len(x) + Len(k) - 1

(* The id of the segment has four bytes. *)
LEMMA SegmentIdIs == SegmentId \in Nat /\ SegmentId >= Power256[4]
BY SMT DEF Power256, SegmentId

(* What comes before the Info. *)
LEMMA BeforeInfoLength == Len(BeforeInfo) = InfoAt - 1
<1> DEFINE s == WriteId(SegmentId)
<1>1. s \in Seq(Nat) /\ Len(s) = 4
  BY SegmentIdIs, FourByteWidth, WriteIdIs, Zenon
<1>2. UnknownSize \in Seq(Nat) /\ Len(UnknownSize) = 8 BY DEF UnknownSize
<1>3. EbmlPart \in Seq(Nat)
  <2>1. 0 \in Nat OBVIOUS
  <2> QED BY <2>1, HeaderParts, Zenon
<1>4. BeforeInfo = EbmlPart \o s \o UnknownSize
  BY Zenon DEF BeforeInfo, EbmlPart
<1> HIDE DEF s
<1>5. EbmlPart \o s \in Seq(Nat) /\ Len(EbmlPart \o s) = Len(EbmlPart) + 4
  BY <1>1, <1>3, JoinIs, Zenon
<1>6. Len(BeforeInfo) = Len(EbmlPart) + 4 + 8
  BY <1>2, <1>4, <1>5, JoinIs, Zenon
<1>7. Len(EbmlPart) \in Nat BY <1>3
<1> QED BY <1>6, <1>7 DEF InfoAt

(* The Info is its beginning, the eight bytes, and nothing else. *)
LEMMA DurationAround ==
  \E a, x, k, y, z : Around(a, x, k, y, z)
<1> DEFINE a == WriteId(InfoId) \o WriteSize(Len(Info))
           x == InfoBeforeDuration
           y == StringElement(\h4d80, "handycam")
           z == StringElement(\h5741, "handycam")
<1>1. PICK key \in Nat : key = \h4489 BY SMT
<1> DEFINE k == WriteId(key) \o WriteSize(8)
<1>2. y \in Seq(Nat) /\ z \in Seq(Nat)
  BY ShortString, SMT DEF Short, Text
<1>3. x \in Seq(Nat) /\ Len(x) \in Nat BY ShortInfo, Zenon DEF Short
<1>4. Len(Info) \in Nat /\ Len(Info) <= LargestSize
  BY ShortInfo, SMT DEF Short, LargestSize
<1>5. a \in Seq(Nat) /\ Len(a) = 4 + SizeWidth(Len(Info))
      /\ SizeWidth(Len(Info)) \in 1 .. 4
  <2>1. ByteWidth(InfoId) = 4 BY Ids, FourByteWidth
  <2>2. WriteId(InfoId) \in Seq(Nat) /\ Len(WriteId(InfoId)) = 4
    BY <2>1, Ids, WriteIdIs, Zenon
  <2>3. /\ WriteSize(Len(Info)) \in Seq(Nat)
        /\ Len(WriteSize(Len(Info))) = SizeWidth(Len(Info))
        /\ SizeWidth(Len(Info)) \in 1 .. 4
    BY <1>4, WriteSizeIs, Zenon
  <2> QED BY <2>2, <2>3, JoinIs, Zenon
<1>6. k \in Seq(Nat) /\ Len(k) = 3
  <2>1. ByteWidth(key) = 2 BY <1>1, TwoByteWidth
  <2>2. WriteId(key) \in Seq(Nat) /\ Len(WriteId(key)) = 2
    BY <2>1, WriteIdIs, Zenon
  <2>3. 8 \in Nat /\ 8 <= LargestSize BY SMT DEF LargestSize
  <2>4. 0 \in Nat OBVIOUS
  <2>5. Len(FloatElement(key, 0)) = ByteWidth(key) + 9
    BY <2>4, FloatElementIs, Zenon
  <2>6. F64(0) \in Seq(Nat) /\ Len(F64(0)) = 8 BY <2>4, F64Is, Zenon
  <2>7. Len(Element(key, F64(0))) = ByteWidth(key) + SizeWidth(8) + 8
    BY <2>3, <2>6, ElementIs, Zenon
  <2>8. /\ WriteSize(8) \in Seq(Nat) /\ Len(WriteSize(8)) = SizeWidth(8)
        /\ SizeWidth(8) \in 1 .. 4
    BY <2>3, WriteSizeIs, Zenon
  <2>9. 2 + 9 = 2 + SizeWidth(8) + 8
    BY <2>1, <2>5, <2>7, Zenon DEF FloatElement
  <2>10. SizeWidth(8) = 1 BY <2>8, <2>9
  <2>11. k \in Seq(Nat) /\ Len(k) = 2 + 1 BY <2>2, <2>8, <2>10, JoinIs, Zenon
  <2> QED BY <2>11
<1>7. ASSUME NEW d \in Nat
      PROVE  InfoPart(d) = Spliced(a, x, k, F64(d), y, z)
  <2>1. InfoWith(d) = x \o FloatElement(key, d) \o y \o z
    BY <1>1, SMT DEF InfoWith
  <2>2. Len(F64(d)) = 8 BY F64Is, Zenon
  <2>3. FloatElement(key, d) = k \o F64(d)
    BY <2>2, Zenon DEF FloatElement, Element
  <2>4. Len(InfoWith(d)) = Len(Info) BY InfoLength, Zenon
  <2>5. InfoPart(d) = a \o InfoWith(d) BY <2>4, Zenon DEF InfoPart, Element
  <2> HIDE DEF a, x, k, y, z
  <2> QED BY <2>1, <2>3, <2>5, Zenon DEF Spliced
<1> HIDE DEF a, k, y, z
<1>8. DurationOffset = InfoAt + Len(a) + Len(x) + Len(k) - 1
  <2>1. DurationOffset = InfoAt - 1 + 4 + SizeWidth(Len(Info)) + Len(x) + 3
    BY BeforeInfoLength, Zenon DEF DurationOffset
  <2>2. PICK s \in Nat, n \in Nat, i \in Nat :
          s = SizeWidth(Len(Info)) /\ n = Len(x) /\ i = InfoAt
    <3>1. \A m \in 1 .. 4 : m \in Nat OBVIOUS
    <3>2. SizeWidth(Len(Info)) \in Nat /\ InfoAt \in Nat
      BY <1>5, <3>1, HeaderPlaces, Zenon
    <3> QED BY <1>3, <3>2, Zenon
  <2>3. DurationOffset = i - 1 + 4 + s + n + 3 BY <2>1, <2>2, Zenon
  <2>4. i - 1 + 4 + s + n + 3 = i + (4 + s) + n + 3 - 1 OBVIOUS
  <2> QED BY <1>5, <1>6, <2>2, <2>3, <2>4, Zenon
<1> HIDE DEF x
<1>9. Around(a, x, k, y, z) BY <1>2, <1>3, <1>5, <1>6, <1>7, <1>8, Zenon DEF Around
<1> QED BY <1>9, Zenon

(* Where the Duration is: in the Info, so after the segment's head and before *)
(* the tracks.                                                                *)
LEMMA DurationPlace ==
  /\ DurationOffset \in Nat /\ InfoAt - 1 <= DurationOffset
  /\ DurationOffset + 8 < TracksAt
<1>1. PICK a, x, k, y, z : Around(a, x, k, y, z) BY DurationAround, Zenon
<1>2. /\ a \in Seq(Nat) /\ x \in Seq(Nat) /\ k \in Seq(Nat)
      /\ y \in Seq(Nat) /\ z \in Seq(Nat)
      /\ DurationOffset = InfoAt + Len(a) + Len(x) + Len(k) - 1
  BY <1>1, Zenon DEF Around
<1>3. 0 \in Nat OBVIOUS
<1>4. InfoPart(0) = Spliced(a, x, k, F64(0), y, z)
  BY <1>1, <1>3, Zenon DEF Around
<1> DEFINE u == F64(0)  s1 == k \o u  s2 == x \o s1  s3 == s2 \o y
           s4 == s3 \o z  s5 == a \o s4
<1>5. u \in Seq(Nat) /\ Len(u) = 8 BY <1>3, F64Is, Zenon
<1> HIDE DEF u
<1>6. s1 \in Seq(Nat) /\ Len(s1) = Len(k) + Len(u) BY <1>2, <1>5, JoinIs
<1> HIDE DEF s1
<1>7. s2 \in Seq(Nat) /\ Len(s2) = Len(x) + Len(s1) BY <1>2, <1>6, JoinIs
<1> HIDE DEF s2
<1>8. s3 \in Seq(Nat) /\ Len(s3) = Len(s2) + Len(y) BY <1>2, <1>7, JoinIs
<1> HIDE DEF s3
<1>9. s4 \in Seq(Nat) /\ Len(s4) = Len(s3) + Len(z) BY <1>2, <1>8, JoinIs
<1> HIDE DEF s4
<1>10. Len(InfoPart(0)) = Len(a) + (Len(x) + (Len(k) + 8) + Len(y) + Len(z))
  <2>1. s5 \in Seq(Nat) /\ Len(s5) = Len(a) + Len(s4) BY <1>2, <1>9, JoinIs
  <2>2. InfoPart(0) = s5 BY <1>4, Zenon DEF Spliced, s4, s3, s2, s1, u
  <2> HIDE DEF s5
  <2> QED BY <1>5, <1>6, <1>7, <1>8, <1>9, <2>1, <2>2, Zenon
<1>11. PICK la \in Nat, lx \in Nat, lk \in Nat, ly \in Nat, lz \in Nat,
            i \in Nat \ {0} :
         /\ la = Len(a) /\ lx = Len(x) /\ lk = Len(k) /\ ly = Len(y)
         /\ lz = Len(z) /\ i = InfoAt
  <2>1. /\ Len(a) \in Nat /\ Len(x) \in Nat /\ Len(k) \in Nat
        /\ Len(y) \in Nat /\ Len(z) \in Nat
    BY <1>2
  <2> QED BY <2>1, HeaderPlaces, Zenon
<1>12. /\ DurationOffset = i + la + lx + lk - 1
       /\ TracksAt = i + (la + (lx + (lk + 8) + ly + lz))
  BY <1>2, <1>10, <1>11, HeaderPlaces, Zenon
<1>13. /\ i + la + lx + lk - 1 \in Nat /\ i - 1 <= i + la + lx + lk - 1
       /\ i + la + lx + lk - 1 + 8 < i + (la + (lx + (lk + 8) + ly + lz))
  OBVIOUS
<1> QED BY <1>11, <1>12, <1>13, Zenon

(* With another Duration in its place, the file that is to come is the same  *)
(* but for it.                                                               *)
LEMMA LaidRedone ==
  ASSUME NEW out, NEW cuts, NEW d, NEW events, Laid(out, cuts, d, events),
         NEW g, Redone(out, g, DurationOffset), NEW m \in Nat,
         Lies(F64(m), g, DurationOffset + 1)
  PROVE  Laid(g, cuts, m, events)
<1>1. /\ out \in Seq(Nat) /\ d \in Nat /\ Len(events) \in Nat
      /\ Lies(EbmlPart, out, 1) /\ Lies(SegmentHead, out, Len(EbmlPart) + 1)
      /\ Lies(InfoPart(d), out, InfoAt) /\ Lies(TracksPart, out, TracksAt)
      /\ ClustersLaid(out, cuts, events) /\ cuts[0] = HeaderEnd
  BY Zenon DEF Laid, HeaderLaid
<1>2. g \in Seq(Nat) /\ Len(g) = Len(out) BY Zenon DEF Redone
<1>3. /\ DurationOffset \in Nat /\ InfoAt - 1 <= DurationOffset
      /\ DurationOffset + 8 < TracksAt
  BY DurationPlace
<1>4. /\ EbmlPart \in Seq(Nat) /\ SegmentHead \in Seq(Nat)
      /\ TracksPart \in Seq(Nat) /\ Len(SegmentHead) = 12
      /\ Len(EbmlPart) \in Nat
  <2>1. 0 \in Nat OBVIOUS
  <2> QED BY <2>1, HeaderParts, Zenon
<1>5. /\ Len(EbmlPart) + 1 \in Nat \ {0} /\ InfoAt \in Nat \ {0}
      /\ TracksAt \in Nat \ {0} /\ HeaderEnd \in Nat
      /\ Len(EbmlPart) + 12 = InfoAt - 1 /\ InfoAt - 1 \in Nat
      /\ TracksAt <= HeaderEnd
  BY HeaderPlaces, Zenon
<1>6. Lies(EbmlPart, g, 1) /\ Lies(SegmentHead, g, Len(EbmlPart) + 1)
      /\ Lies(TracksPart, g, TracksAt)
  <2>1. 1 \in Nat \ {0} OBVIOUS
  <2>2. PICK e \in Nat : e = Len(EbmlPart) BY <1>4, Zenon
  <2>3. e + 12 <= DurationOffset BY <1>3, <1>5, <2>2, Zenon
  <2>4. 1 + e - 1 <= DurationOffset /\ e + 1 + 12 - 1 <= DurationOffset
    BY <1>3, <2>3
  <2>5. Lies(EbmlPart, g, 1)
    BY <1>1, <1>3, <1>4, <2>1, <2>2, <2>4, LiesElsewhere, Zenon
  <2>6. Lies(SegmentHead, g, Len(EbmlPart) + 1)
    BY <1>1, <1>3, <1>4, <1>5, <2>2, <2>4, LiesElsewhere, Zenon
  <2>7. Lies(TracksPart, g, TracksAt)
    BY <1>1, <1>3, <1>4, <1>5, LiesElsewhere, Zenon
  <2> QED BY <2>5, <2>6, <2>7
<1>7. Lies(InfoPart(m), g, InfoAt)
  <2>1. PICK a, x, k, y, z : Around(a, x, k, y, z) BY DurationAround, Zenon
  <2>2. /\ a \in Seq(Nat) /\ x \in Seq(Nat) /\ k \in Seq(Nat)
        /\ y \in Seq(Nat) /\ z \in Seq(Nat)
        /\ DurationOffset = InfoAt + Len(a) + Len(x) + Len(k) - 1
    BY <2>1, Zenon DEF Around
  <2>3. /\ InfoPart(d) = Spliced(a, x, k, F64(d), y, z)
        /\ InfoPart(m) = Spliced(a, x, k, F64(m), y, z)
    BY <1>1, <2>1, Zenon DEF Around
  <2>4. /\ F64(d) \in Seq(Nat) /\ Len(F64(d)) = 8
        /\ F64(m) \in Seq(Nat) /\ Len(F64(m)) = 8
    BY <1>1, F64Is, Zenon
  <2>5. Lies(Spliced(a, x, k, F64(d), y, z), out, InfoAt)
    BY <1>1, <2>3, Zenon
  <2>6. Lies(Spliced(a, x, k, F64(m), y, z), g, InfoAt)
    <3>1. PICK u \in Seq(Nat), v \in Seq(Nat), p \in Nat, i \in Nat \ {0} :
            u = F64(d) /\ v = F64(m) /\ p = DurationOffset /\ i = InfoAt
      BY <1>3, <1>5, <2>4, Zenon
    <3>2. /\ Len(u) = 8 /\ Len(v) = 8 /\ Redone(out, g, p)
          /\ p = i + Len(a) + Len(x) + Len(k) - 1 /\ Lies(v, g, p + 1)
          /\ Lies(Spliced(a, x, k, u, y, z), out, i)
      BY <2>2, <2>4, <2>5, <3>1, Zenon
    <3>3. Lies(Spliced(a, x, k, v, y, z), g, i)
      <4>1. Resplices(out, g, p, i, a, x, k, u, v, y, z)
        BY <2>2, <3>2, Zenon DEF Resplices
      <4> QED BY <4>1, LiesRedone, Zenon
    <3> QED BY <3>1, <3>3, Zenon
  <2> QED BY <2>3, <2>6, Zenon
<1>8. ASSUME NEW n \in 1 .. Len(events)
      PROVE  Lies(ClusterOf(events[n]), g, cuts[n - 1] + 1)
  <2>1. /\ Sound(events[n]) /\ Lies(ClusterOf(events[n]), out, cuts[n - 1] + 1)
        /\ cuts \in [0 .. Len(events) -> Nat]
    BY <1>1, Zenon DEF ClustersLaid
  <2>2. n - 1 \in 0 .. Len(events) /\ 0 \in 0 .. Len(events) BY <1>1
  <2>3. cuts[n - 1] \in Nat BY <2>1, <2>2
  <2>4. cuts[0] <= cuts[n - 1]
    <3>1. n - 1 \in 0 .. Len(events) BY <2>2
    <3> QED BY <1>1, <2>2, <3>1, CutsGrow, Zenon
  <2>5. PICK c \in Nat : c = cuts[n - 1] BY <2>3, Zenon
  <2>6. HeaderEnd <= c BY <1>1, <2>4, <2>5, Zenon
  <2>7. c + 1 \in Nat \ {0} /\ DurationOffset + 8 < c + 1
    BY <1>3, <1>5, <2>6
  <2>8. ClusterOf(events[n]) \in Seq(Nat) BY <2>1, SoundCluster, Zenon
  <2> QED BY <1>3, <2>1, <2>5, <2>7, <2>8, LiesElsewhere, Zenon
<1>9. ClustersLaid(g, cuts, events) BY <1>1, <1>2, <1>8, Zenon DEF ClustersLaid
<1> QED BY <1>1, <1>2, <1>6, <1>7, <1>9, Zenon DEF Laid, HeaderLaid

-----------------------------------------------------------------------------
(* What new and the writes of events write. *)

(* An element is written in three pieces: its id, its size, its payload. *)
LEMMA ElementPieces ==
  ASSUME NEW id \in Nat, NEW p \in Seq(Nat), Len(p) <= LargestSize,
         NEW f \in Seq(Nat), NEW i \in Nat \ {0}, Lies(Element(id, p), f, i)
  PROVE  /\ Lies(WriteId(id), f, i)
         /\ Lies(WriteSize(Len(p)), f, i + Len(WriteId(id)))
         /\ Lies(p, f, i + (Len(WriteId(id)) + Len(WriteSize(Len(p)))))
         /\ WriteId(id) \in Seq(Nat) /\ WriteSize(Len(p)) \in Seq(Nat)
         /\ Len(Element(id, p))
              = Len(WriteId(id)) + Len(WriteSize(Len(p))) + Len(p)
<1> DEFINE a == WriteId(id)  b == WriteSize(Len(p))
<1>1. Len(p) \in Nat OBVIOUS
<1>2. a \in Seq(Nat) /\ b \in Seq(Nat) BY <1>1, WriteIdIs, WriteSizeIs, Zenon
<1>3. Element(id, p) = (a \o b) \o p BY Zenon DEF Element
<1> HIDE DEF a, b
<1>4. a \o b \in Seq(Nat) /\ Len(a \o b) = Len(a) + Len(b)
  BY <1>2, JoinIs, Zenon
<1>5. Lies(a \o b, f, i) /\ Lies(p, f, i + Len(a \o b))
  <2>1. Lies((a \o b) \o p, f, i) BY <1>3, Zenon
  <2> QED BY <1>4, <2>1, LiesParts, Zenon
<1>6. Lies(a, f, i) /\ Lies(b, f, i + Len(a)) BY <1>2, <1>5, LiesParts, Zenon
<1>7. Lies(p, f, i + (Len(a) + Len(b))) BY <1>4, <1>5, Zenon
<1>8. Len((a \o b) \o p) = Len(a) + Len(b) + Len(p)
  <2> DEFINE c == a \o b
  <2>1. Len(c \o p) = Len(c) + Len(p)
    <3> HIDE DEF c
    <3>1. c \in Seq(Nat) BY <1>4, Zenon DEF c
    <3> QED BY <3>1, JoinIs
  <2> QED BY <1>4, <2>1, Zenon
<1>9. Len(Element(id, p)) = Len(a) + Len(b) + Len(p) BY <1>3, <1>8, Zenon
<1> QED BY <1>2, <1>6, <1>7, <1>9, Zenon DEF a, b

(* The calls from the k-th on. *)
DueFrom(cs, k, t, out) == Due(SubSeq(cs, k, Len(cs)), t, out)

(* From behind the last call on nothing is due. *)
LEMMA DueFromEnds ==
  ASSUME NEW cs \in Seq(Appends), NEW out \in Seq(Nat)
  PROVE  /\ DueFrom(cs, Len(cs) + 1, Len(out), out)
         /\ \A t : DueFrom(cs, 1, t, out) => Due(cs, t, out)
<1>1. SubSeq(cs, Len(cs) + 1, Len(cs)) = << >> /\ SubSeq(cs, 1, Len(cs)) = cs
  OBVIOUS
<1> QED BY <1>1, NoneDue, Zenon DEF DueFrom

(* One call has the place before that of those after it. *)
LEMMA OneFrom ==
  ASSUME NEW S, NEW cs \in Seq(S), NEW k \in 1 .. Len(cs)
  PROVE  /\ SubSeq(cs, k, Len(cs)) = << cs[k] >> \o SubSeq(cs, k + 1, Len(cs))
         /\ SubSeq(cs, k + 1, Len(cs)) \in Seq(S) /\ cs[k] \in S
<1> DEFINE a == SubSeq(cs, k, Len(cs))  b == SubSeq(cs, k + 1, Len(cs))
           c == << cs[k] >> \o b
<1>1. PICK n \in Nat : n = Len(cs) BY SMT
<1>2. k \in 1 .. n BY <1>1
<1>3. /\ a \in Seq(S) /\ Len(a) = n - k + 1
      /\ \A i \in 1 .. n - k + 1 : a[i] = cs[k + i - 1]
  BY <1>1, <1>2
<1>4. /\ b \in Seq(S) /\ Len(b) = n - k
      /\ \A i \in 1 .. n - k : b[i] = cs[k + 1 + i - 1]
  BY <1>1, <1>2
<1> HIDE DEF a, b
<1>5. cs[k] \in S OBVIOUS
<1>6. /\ c \in Seq(S) /\ Len(c) = Len(b) + 1 /\ c[1] = cs[k]
      /\ \A i \in 2 .. Len(b) + 1 : c[i] = b[i - 1]
  BY <1>4, <1>5, Prepended
<1> HIDE DEF c
<1>7. Len(c) = n - k + 1 BY <1>2, <1>4, <1>6
<1>8. ASSUME NEW i \in 1 .. n - k + 1 PROVE a[i] = c[i]
  <2>1. CASE i = 1
    <3>1. k + 1 - 1 = k BY <1>2
    <3> QED BY <1>3, <1>6, <2>1, <3>1
  <2>2. CASE i # 1
    <3>1. /\ i \in 2 .. n - k + 1 /\ i - 1 \in 1 .. n - k
          /\ k + 1 + (i - 1) - 1 = k + i - 1
      BY <1>2, <2>2
    <3>2. c[i] = b[i - 1] BY <1>4, <1>6, <3>1, Zenon
    <3>3. b[i - 1] = cs[k + 1 + (i - 1) - 1] BY <1>4, <3>1, Zenon
    <3> QED BY <1>3, <3>1, <3>2, <3>3, Zenon
  <2> QED BY <2>1, <2>2
<1>9. a = c BY <1>3, <1>6, <1>7, <1>8, SameSeq, Zenon
<1> QED BY <1>4, <1>5, <1>9, Zenon DEF a, b, c

(* One call, one write and one element more. *)
LEMMA CallFrom ==
  ASSUME NEW cs \in Seq(Appends), NEW k \in 1 .. Len(cs), NEW t \in Nat,
         NEW out \in Seq(Nat), DueFrom(cs, k + 1, t + SizeOf(cs[k]), out),
         t + SizeOf(cs[k]) <= Len(out),
         cs[k] \in Writes => Lies(cs[k].bytes, out, t + 1)
  PROVE  DueFrom(cs, k, t, out)
<1>1. /\ SubSeq(cs, k, Len(cs)) = << cs[k] >> \o SubSeq(cs, k + 1, Len(cs))
      /\ SubSeq(cs, k + 1, Len(cs)) \in Seq(Appends) /\ cs[k] \in Appends
  BY OneFrom, Zenon
<1>2. Due(<< cs[k] >> \o SubSeq(cs, k + 1, Len(cs)), t, out)
  BY <1>1, DueBefore, Zenon DEF DueFrom
<1> QED BY <1>1, <1>2, Zenon DEF DueFrom

LEMMA WriteFrom ==
  ASSUME NEW cs \in Seq(Appends), NEW k \in 1 .. Len(cs), NEW t \in Nat,
         NEW b \in Seq(Nat), cs[k] = WriteAll(b),
         NEW out \in Seq(Nat), DueFrom(cs, k + 1, t + Len(b), out),
         t + Len(b) <= Len(out), Lies(b, out, t + 1)
  PROVE  DueFrom(cs, k, t, out)
<1>1. SizeOf(WriteAll(b)) = Len(b) /\ WriteAll(b).bytes = b
  BY DEF WriteAll, SizeOf
<1> QED BY <1>1, CallFrom, Zenon

LEMMA ElementFrom ==
  ASSUME NEW cs \in Seq(Appends), NEW k \in 1 .. Len(cs) - 2, NEW t \in Nat,
         NEW id \in Nat, NEW p \in Seq(Nat), Len(p) <= LargestSize,
         cs[k] = WriteAll(WriteId(id)), cs[k + 1] = WriteAll(WriteSize(Len(p))),
         cs[k + 2] = WriteAll(p), NEW out \in Seq(Nat),
         DueFrom(cs, k + 3, t + Len(Element(id, p)), out),
         t + Len(Element(id, p)) <= Len(out), Lies(Element(id, p), out, t + 1)
  PROVE  DueFrom(cs, k, t, out)
<1> DEFINE a == WriteId(id)  b == WriteSize(Len(p))
<1>0. t + 1 \in Nat \ {0} OBVIOUS
<1>1. /\ Lies(a, out, t + 1) /\ Lies(b, out, t + 1 + Len(a))
      /\ Lies(p, out, t + 1 + (Len(a) + Len(b)))
      /\ a \in Seq(Nat) /\ b \in Seq(Nat)
      /\ Len(Element(id, p)) = Len(a) + Len(b) + Len(p)
  BY <1>0, ElementPieces, Zenon
<1>2. cs[k] = WriteAll(a) /\ cs[k + 1] = WriteAll(b) OBVIOUS
<1> HIDE DEF a, b
<1>3. PICK la \in Nat, lb \in Nat, lp \in Nat, lo \in Nat :
        la = Len(a) /\ lb = Len(b) /\ lp = Len(p) /\ lo = Len(out)
  <2>1. Len(a) \in Nat /\ Len(b) \in Nat /\ Len(p) \in Nat /\ Len(out) \in Nat
    BY <1>1, SMTT(30)
  <2> QED BY <2>1, Zenon
<1>4. t + (la + lb + lp) <= lo BY <1>1, <1>3, Zenon
<1>5. /\ t + (la + lb + lp) = t + la + lb + lp
      /\ t + la \in Nat /\ t + la + lb \in Nat
      /\ t + 1 + la = t + la + 1 /\ t + 1 + (la + lb) = t + la + lb + 1
      /\ t + la <= lo /\ t + la + lb <= lo
  BY <1>4
<1>6. /\ k \in 1 .. Len(cs) /\ k + 1 \in 1 .. Len(cs) /\ k + 2 \in 1 .. Len(cs)
      /\ k + 1 + 1 = k + 2 /\ k + 2 + 1 = k + 3
  OBVIOUS
<1>7. DueFrom(cs, k + 2, t + la + lb, out)
  <2>1. /\ DueFrom(cs, k + 2 + 1, t + la + lb + lp, out)
        /\ t + la + lb + lp <= lo /\ Lies(p, out, t + la + lb + 1)
    BY <1>1, <1>3, <1>4, <1>5, <1>6, Zenon
  <2> QED BY <1>3, <1>5, <1>6, <2>1, WriteFrom, Zenon
<1>8. DueFrom(cs, k + 1, t + la, out)
  <2>1. DueFrom(cs, k + 1 + 1, t + la + lb, out) /\ Lies(b, out, t + la + 1)
    BY <1>1, <1>3, <1>5, <1>6, <1>7, Zenon
  <2> QED BY <1>1, <1>2, <1>3, <1>5, <1>6, <2>1, WriteFrom, Zenon
<1>9. DueFrom(cs, k, t, out)
  BY <1>1, <1>2, <1>3, <1>5, <1>6, <1>8, WriteFrom, Zenon
<1> QED BY <1>9

(* The calls of new, one by one. *)
LEMMA NewCallsAre ==
  /\ NewCalls \in Seq(Appends) /\ Len(NewCalls) = 13
  /\ NewCalls[1] = WriteAll(WriteId(EbmlId))
  /\ NewCalls[2] = WriteAll(WriteSize(Len(EbmlHeader)))
  /\ NewCalls[3] = WriteAll(EbmlHeader)
  /\ NewCalls[4] = WriteAll(WriteId(SegmentId))
  /\ NewCalls[5] = WriteAll(UnknownSize) /\ NewCalls[6] = Seek("current")
  /\ NewCalls[7] = WriteAll(WriteId(InfoId))
  /\ NewCalls[8] = WriteAll(WriteSize(Len(Info)))
  /\ NewCalls[9] = WriteAll(Info)
  /\ NewCalls[10] = WriteAll(WriteId(TracksId))
  /\ NewCalls[11] = WriteAll(WriteSize(Len(TrackEntries)))
  /\ NewCalls[12] = WriteAll(TrackEntries) /\ NewCalls[13] = Return(0)
<1>1. NewCalls \in Seq(Appends) /\ Len(NewCalls) = 13 BY HeaderCalls
<1> DEFINE c1 == WriteAll(WriteId(EbmlId))
           c2 == WriteAll(WriteSize(Len(EbmlHeader)))
           c3 == WriteAll(EbmlHeader)
           c4 == WriteAll(WriteId(SegmentId))
           c5 == WriteAll(UnknownSize)  c6 == Seek("current")
           c7 == WriteAll(WriteId(InfoId))
           c8 == WriteAll(WriteSize(Len(Info)))
           c9 == WriteAll(Info)
           c10 == WriteAll(WriteId(TracksId))
           c11 == WriteAll(WriteSize(Len(TrackEntries)))
           c12 == WriteAll(TrackEntries)  c13 == Return(0)
<1>2. NewCalls = << c1, c2, c3, c4, c5, c6, c7, c8, c9, c10, c11, c12, c13 >>
  BY Zenon DEF NewCalls
<1> HIDE DEF c1, c2, c3, c4, c5, c6, c7, c8, c9, c10, c11, c12, c13
<1>3. /\ NewCalls[1] = c1 /\ NewCalls[2] = c2 /\ NewCalls[3] = c3
      /\ NewCalls[4] = c4 /\ NewCalls[5] = c5 /\ NewCalls[6] = c6
      /\ NewCalls[7] = c7 /\ NewCalls[8] = c8 /\ NewCalls[9] = c9
      /\ NewCalls[10] = c10 /\ NewCalls[11] = c11 /\ NewCalls[12] = c12
      /\ NewCalls[13] = c13
  BY <1>2
<1> QED BY <1>1, <1>3, Zenon
        DEF c1, c2, c3, c4, c5, c6, c7, c8, c9, c10, c11, c12, c13

(* The head of the segment is written in two pieces. *)
LEMMA SegmentPieces ==
  ASSUME NEW f \in Seq(Nat), NEW i \in Nat \ {0}, Lies(SegmentHead, f, i)
  PROVE  /\ Lies(WriteId(SegmentId), f, i) /\ Lies(UnknownSize, f, i + 4)
         /\ WriteId(SegmentId) \in Seq(Nat) /\ Len(WriteId(SegmentId)) = 4
         /\ UnknownSize \in Seq(Nat) /\ Len(UnknownSize) = 8
<1> DEFINE a == WriteId(SegmentId)
<1>1. a \in Seq(Nat) /\ Len(a) = 4 /\ ByteWidth(SegmentId) = 4
  BY SegmentIdIs, FourByteWidth, WriteIdIs, Zenon
<1>2. \A j \in 1 .. 4 : a[j] = (SegmentId \div Power256[4 - j + 1]) % 256
  BY <1>1, SMT DEF WriteId, BigEndian
<1>3. a[1] = 24 /\ a[2] = 83 /\ a[3] = 128 /\ a[4] = 103
  <2>1. /\ 1 \in 1 .. 4 /\ 2 \in 1 .. 4 /\ 3 \in 1 .. 4 /\ 4 \in 1 .. 4
        /\ 4 - 1 + 1 = 4 /\ 4 - 2 + 1 = 3 /\ 4 - 3 + 1 = 2 /\ 4 - 4 + 1 = 1
    OBVIOUS
  <2>2. /\ a[1] = (SegmentId \div Power256[4]) % 256
        /\ a[2] = (SegmentId \div Power256[3]) % 256
        /\ a[3] = (SegmentId \div Power256[2]) % 256
        /\ a[4] = (SegmentId \div Power256[1]) % 256
    <3> HIDE DEF a
    <3> QED BY <1>2, <2>1, SMT
  <2>3. /\ (SegmentId \div 16777216) % 256 = 24
        /\ (SegmentId \div 65536) % 256 = 83
        /\ (SegmentId \div 256) % 256 = 128
        /\ (SegmentId \div 1) % 256 = 103
    BY SMT DEF SegmentId
  <2> HIDE DEF a
  <2> QED BY <2>2, <2>3, Powers, SMT
<1> HIDE DEF a
<1>4. UnknownSize \in Seq(Nat) /\ Len(UnknownSize) = 8
      /\ Len(SegmentHead) = 12
  BY SMT DEF UnknownSize, SegmentHead
<1>5. /\ SegmentHead[1] = 24 /\ SegmentHead[2] = 83 /\ SegmentHead[3] = 128
      /\ SegmentHead[4] = 103
      /\ \A j \in 1 .. 8 : SegmentHead[4 + j] = UnknownSize[j]
  BY SMT DEF UnknownSize, SegmentHead
<1>6. ASSUME NEW j \in 1 .. 4 PROVE a[j] = SegmentHead[j]
  <2>1. j = 1 \/ j = 2 \/ j = 3 \/ j = 4 OBVIOUS
  <2>2. CASE j = 1 BY <1>3, <1>5, <2>2, Zenon
  <2>3. CASE j = 2 BY <1>3, <1>5, <2>3, Zenon
  <2>4. CASE j = 3 BY <1>3, <1>5, <2>4, Zenon
  <2>5. CASE j = 4 BY <1>3, <1>5, <2>5, Zenon
  <2> QED BY <2>1, <2>2, <2>3, <2>4, <2>5, Zenon
<1>7. Lies(a, f, i)
  <2>1. \A j \in 1 .. 4 : j \in 1 .. 12 OBVIOUS
  <2> QED BY <1>1, <1>4, <1>6, <2>1, Zenon DEF Lies
<1>8. Lies(UnknownSize, f, i + 4)
  <2>1. \A j \in 1 .. 8 : 4 + j \in 1 .. 12 /\ i + 4 + j - 1 = i + (4 + j) - 1
    OBVIOUS
  <2>2. ASSUME NEW j \in 1 .. 8, i + 4 + j - 1 <= Len(f)
        PROVE  f[i + 4 + j - 1] = UnknownSize[j]
    <3>1. 4 + j \in 1 .. 12 /\ i + 4 + j - 1 = i + (4 + j) - 1 BY <2>1
    <3>2. f[i + (4 + j) - 1] = SegmentHead[4 + j]
      BY <1>4, <2>2, <3>1, Zenon DEF Lies
    <3> QED BY <1>5, <3>1, <3>2, Zenon
  <2> QED BY <1>4, <2>2, Zenon DEF Lies
<1> QED BY <1>1, <1>4, <1>7, <1>8 DEF a

-----------------------------------------------------------------------------
(* The file after new. *)
HeaderFile == EbmlPart \o SegmentHead \o InfoPart(0) \o TracksPart

(* It is bytes, and as long as its parts. *)
LEMMA HeaderFileLaid ==
  /\ HeaderFile \in Seq(Nat) /\ Len(HeaderFile) = HeaderEnd
  /\ HeaderLaid(HeaderFile, 0)
<1> DEFINE a == EbmlPart  b == SegmentHead  c == InfoPart(0)  d == TracksPart
           ab == a \o b  abc == ab \o c  f == abc \o d
<1>1. /\ a \in Seq(Nat) /\ b \in Seq(Nat) /\ c \in Seq(Nat) /\ d \in Seq(Nat)
      /\ Len(b) = 12
  <2>1. 0 \in Nat OBVIOUS
  <2> QED BY <2>1, HeaderParts, Zenon
<1>2. HeaderFile = f BY Zenon DEF HeaderFile
<1>3. /\ InfoAt = Len(a) + 13 /\ TracksAt = InfoAt + Len(c)
      /\ HeaderEnd = TracksAt + Len(d) - 1
  BY Zenon DEF InfoAt, TracksAt, HeaderEnd
<1> HIDE DEF a, b, c, d
<1>4. ab \in Seq(Nat) /\ Len(ab) = Len(a) + Len(b) BY <1>1, JoinIs
<1> HIDE DEF ab
<1>5. abc \in Seq(Nat) /\ Len(abc) = Len(ab) + Len(c) BY <1>1, <1>4, JoinIs
<1> HIDE DEF abc
<1>6. f \in Seq(Nat) /\ Len(f) = Len(abc) + Len(d) BY <1>1, <1>5, JoinIs
<1>7. PICK la \in Nat, lc \in Nat, ld \in Nat :
        la = Len(a) /\ lc = Len(c) /\ ld = Len(d)
  <2>1. Len(a) \in Nat /\ Len(c) \in Nat /\ Len(d) \in Nat BY <1>1
  <2> QED BY <2>1, Zenon
<1>8. /\ Len(ab) = la + 12 /\ Len(abc) = la + 12 + lc
      /\ Len(f) = la + 12 + lc + ld
      /\ InfoAt = la + 13 /\ TracksAt = la + 13 + lc
      /\ HeaderEnd = la + 13 + lc + ld - 1
  BY <1>1, <1>3, <1>4, <1>5, <1>6, <1>7, Zenon
<1>9. /\ la + 12 + lc + ld = la + 13 + lc + ld - 1
      /\ 1 + (la + 12) = la + 13 /\ 1 + (la + 12 + lc) = la + 13 + lc
      /\ 1 + la = la + 1 /\ 1 \in Nat \ {0}
  OBVIOUS
<1>10. PICK g \in Seq(Nat) : g = f BY <1>6, Zenon
<1>11. Lies(abc \o d, g, 1)
  <2>1. Lies(g, g, 1) BY LiesInItself, Zenon
  <2> QED BY <1>10, <2>1, Zenon
<1>12. Lies(abc, g, 1) /\ Lies(d, g, 1 + Len(abc))
  <2> HIDE DEF f
  <2> QED BY <1>1, <1>5, <1>9, <1>11, LiesParts, Zenon
<1>13. Lies(ab \o c, g, 1) BY <1>12, Zenon DEF abc
<1>14. Lies(ab, g, 1) /\ Lies(c, g, 1 + Len(ab))
  <2> HIDE DEF f
  <2> QED BY <1>1, <1>4, <1>9, <1>13, LiesParts, Zenon
<1>15. Lies(a \o b, g, 1) BY <1>14, Zenon DEF ab
<1>16. Lies(a, g, 1) /\ Lies(b, g, 1 + Len(a))
  <2> HIDE DEF f
  <2> QED BY <1>1, <1>9, <1>15, LiesParts, Zenon
<1>17. /\ 1 + Len(abc) = TracksAt /\ 1 + Len(ab) = InfoAt
       /\ 1 + Len(a) = Len(a) + 1 /\ Len(g) = HeaderEnd
  BY <1>7, <1>8, <1>9, <1>10, Zenon
<1>18. /\ Lies(d, g, TracksAt) /\ Lies(c, g, InfoAt)
       /\ Lies(b, g, Len(a) + 1)
  BY <1>12, <1>14, <1>16, <1>17, Zenon
<1>19. HeaderLaid(g, 0) BY <1>16, <1>18, Zenon DEF HeaderLaid, a, b, c, d
<1> QED BY <1>2, <1>10, <1>17, <1>19, Zenon

(* Calls that add nothing. *)
LEMMA NoBytes ==
  /\ SizeOf(Seek("current")) = 0 /\ Seek("current") \notin Writes
  /\ \A e : SizeOf(Return(e)) = 0 /\ Return(e) \notin Writes
BY DEF SizeOf, Seek, Return, Writes

LEMMA IdleFrom ==
  ASSUME NEW cs \in Seq(Appends), NEW k \in 1 .. Len(cs), NEW t \in Nat,
         NEW out \in Seq(Nat), SizeOf(cs[k]) = 0, cs[k] \notin Writes,
         DueFrom(cs, k + 1, t, out), t <= Len(out)
  PROVE  DueFrom(cs, k, t, out)
<1>1. t + SizeOf(cs[k]) = t OBVIOUS
<1> QED BY <1>1, CallFrom, Zenon

(* The places of the header counted from its parts. *)
LEMMA PlacesOfHeader ==
  ASSUME NEW a \in Nat, NEW i \in Nat, NEW t \in Nat, NEW h \in Nat,
         NEW c \in Nat, NEW d \in Nat,
         a + 12 = i - 1, i + c = t, t + d = h + 1, i # 0, t # 0
  PROVE  /\ i - 1 \in Nat /\ t - 1 \in Nat /\ a + 4 \in Nat /\ 0 \in Nat
         /\ t - 1 + d = h /\ i - 1 + c = t - 1 /\ a + 4 + 8 = i - 1
         /\ 0 + a = a /\ t - 1 <= h /\ i - 1 <= h /\ a + 4 <= h /\ a <= h
         /\ t - 1 + 1 = t /\ i - 1 + 1 = i /\ a + 1 + 4 = a + 4 + 1
         /\ 0 + 1 = 1 /\ a + 1 \in Nat \ {0}
OBVIOUS

(* The calls of new write it from the first byte on. *)
LEMMA HeaderDue == Due(NewCalls, 0, HeaderFile)
<1> DEFINE cs == NewCalls  f == HeaderFile
<1>1. /\ f \in Seq(Nat) /\ Len(f) = HeaderEnd /\ HeaderLaid(f, 0)
  BY HeaderFileLaid, Zenon
<1>2. cs \in Seq(Appends) /\ Len(cs) = 13 BY NewCallsAre, Zenon
<1> HIDE DEF f, cs
<1>3. /\ EbmlHeader \in Seq(Nat) /\ Len(EbmlHeader) <= LargestSize
      /\ Info \in Seq(Nat) /\ Len(Info) <= LargestSize
      /\ TrackEntries \in Seq(Nat) /\ Len(TrackEntries) <= LargestSize
      /\ Len(EbmlPart) \in Nat /\ Len(InfoPart(0)) \in Nat
      /\ Len(TracksPart) \in Nat
  <2>1. 0 \in Nat OBVIOUS
  <2> QED BY <2>1, HeaderParts, InfoLength, Zenon
<1>4. /\ EbmlPart = Element(EbmlId, EbmlHeader)
      /\ InfoPart(0) = Element(InfoId, Info)
      /\ TracksPart = Element(TracksId, TrackEntries)
  <2>1. 0 \in Nat OBVIOUS
  <2> QED BY <2>1, InfoLength, Zenon DEF EbmlPart, InfoPart, TracksPart
<1>5. /\ Lies(EbmlPart, f, 1) /\ Lies(SegmentHead, f, Len(EbmlPart) + 1)
      /\ Lies(InfoPart(0), f, InfoAt) /\ Lies(TracksPart, f, TracksAt)
  BY <1>1, Zenon DEF HeaderLaid
<1>6. PICK a \in Nat, i \in Nat, t \in Nat, h \in Nat, c \in Nat, d \in Nat :
        /\ a = Len(EbmlPart) /\ i = InfoAt /\ t = TracksAt /\ h = HeaderEnd
        /\ c = Len(InfoPart(0)) /\ d = Len(TracksPart)
        /\ a + 12 = i - 1 /\ i + c = t /\ t + d = h + 1 /\ i # 0 /\ t # 0
  <2>1. /\ InfoAt \in Nat /\ TracksAt \in Nat /\ HeaderEnd \in Nat
        /\ InfoAt # 0 /\ TracksAt # 0
    BY HeaderPlaces
  <2> QED BY <1>3, <2>1, HeaderPlaces, Zenon
<1>7. /\ i - 1 \in Nat /\ t - 1 \in Nat /\ a + 4 \in Nat /\ 0 \in Nat
      /\ t - 1 + d = h /\ i - 1 + c = t - 1 /\ a + 4 + 8 = i - 1
      /\ 0 + a = a /\ t - 1 <= h /\ i - 1 <= h /\ a + 4 <= h /\ a <= h
      /\ t - 1 + 1 = t /\ i - 1 + 1 = i /\ a + 1 + 4 = a + 4 + 1
      /\ 0 + 1 = 1 /\ a + 1 \in Nat \ {0}
  <2>1. a + 12 = i - 1 /\ i + c = t /\ t + d = h + 1 /\ i # 0 /\ t # 0 BY <1>6
  <2> QED BY <2>1, SMT
<1>8. /\ 1 \in 1 .. Len(cs) - 2 /\ 7 \in 1 .. Len(cs) - 2
      /\ 10 \in 1 .. Len(cs) - 2 /\ 4 \in 1 .. Len(cs) /\ 5 \in 1 .. Len(cs)
      /\ 6 \in 1 .. Len(cs) /\ 13 \in 1 .. Len(cs)
      /\ 1 + 3 = 4 /\ 4 + 1 = 5 /\ 5 + 1 = 6 /\ 6 + 1 = 7 /\ 7 + 3 = 10
      /\ 10 + 3 = 13 /\ Len(cs) + 1 = 14 /\ 13 + 1 = 14
      /\ 1 + 1 = 2 /\ 1 + 2 = 3 /\ 7 + 1 = 8 /\ 7 + 2 = 9
      /\ 10 + 1 = 11 /\ 10 + 2 = 12 /\ h <= h
  BY <1>2
<1>9. DueFrom(cs, 14, h, f) BY <1>1, <1>2, <1>6, <1>8, DueFromEnds, Zenon
<1>10. DueFrom(cs, 13, h, f)
  <2>1. SizeOf(cs[13]) = 0 /\ cs[13] \notin Writes
    BY NewCallsAre, NoBytes, Zenon DEF cs
  <2> QED BY <1>1, <1>2, <1>6, <1>8, <1>9, <2>1, IdleFrom, Zenon
<1>11. DueFrom(cs, 10, t - 1, f)
  <2>1. /\ cs[10] = WriteAll(WriteId(TracksId))
        /\ cs[10 + 1] = WriteAll(WriteSize(Len(TrackEntries)))
        /\ cs[10 + 2] = WriteAll(TrackEntries)
    BY <1>8, NewCallsAre, Zenon DEF cs
  <2>2. DueFrom(cs, 10 + 3, t - 1 + Len(Element(TracksId, TrackEntries)), f)
    BY <1>4, <1>6, <1>7, <1>8, <1>10, Zenon
  <2>3. /\ t - 1 + Len(Element(TracksId, TrackEntries)) <= Len(f)
        /\ Lies(Element(TracksId, TrackEntries), f, t - 1 + 1)
    BY <1>1, <1>4, <1>5, <1>6, <1>7, <1>8, Zenon
  <2> QED BY <1>1, <1>2, <1>3, <1>7, <1>8, <2>1, <2>2, <2>3, Ids,
             ElementFrom, Zenon
<1>12. DueFrom(cs, 7, i - 1, f)
  <2>1. /\ cs[7] = WriteAll(WriteId(InfoId))
        /\ cs[7 + 1] = WriteAll(WriteSize(Len(Info)))
        /\ cs[7 + 2] = WriteAll(Info)
    BY <1>8, NewCallsAre, Zenon DEF cs
  <2>2. DueFrom(cs, 7 + 3, i - 1 + Len(Element(InfoId, Info)), f)
    BY <1>4, <1>6, <1>7, <1>8, <1>11, Zenon
  <2>3. /\ i - 1 + Len(Element(InfoId, Info)) <= Len(f)
        /\ Lies(Element(InfoId, Info), f, i - 1 + 1)
    BY <1>1, <1>4, <1>5, <1>6, <1>7, Zenon
  <2> QED BY <1>1, <1>2, <1>3, <1>7, <1>8, <2>1, <2>2, <2>3, Ids,
             ElementFrom, Zenon
<1>13. DueFrom(cs, 6, i - 1, f)
  <2>1. SizeOf(cs[6]) = 0 /\ cs[6] \notin Writes
    BY NewCallsAre, NoBytes, Zenon DEF cs
  <2> QED BY <1>1, <1>2, <1>6, <1>7, <1>8, <1>12, <2>1, IdleFrom, Zenon
<1>14. /\ Lies(WriteId(SegmentId), f, a + 1) /\ Lies(UnknownSize, f, a + 4 + 1)
       /\ WriteId(SegmentId) \in Seq(Nat) /\ Len(WriteId(SegmentId)) = 4
       /\ UnknownSize \in Seq(Nat) /\ Len(UnknownSize) = 8
  BY <1>1, <1>5, <1>6, <1>7, SegmentPieces, Zenon
<1>15. DueFrom(cs, 5, a + 4, f)
  <2>1. cs[5] = WriteAll(UnknownSize) BY NewCallsAre, Zenon DEF cs
  <2>2. /\ DueFrom(cs, 5 + 1, a + 4 + Len(UnknownSize), f)
        /\ a + 4 + Len(UnknownSize) <= Len(f)
    BY <1>1, <1>6, <1>7, <1>8, <1>13, <1>14, Zenon
  <2> QED BY <1>1, <1>2, <1>7, <1>8, <1>14, <2>1, <2>2, WriteFrom, Zenon
<1>16. DueFrom(cs, 4, a, f)
  <2>1. cs[4] = WriteAll(WriteId(SegmentId)) BY NewCallsAre, Zenon DEF cs
  <2>2. /\ DueFrom(cs, 4 + 1, a + Len(WriteId(SegmentId)), f)
        /\ a + Len(WriteId(SegmentId)) <= Len(f)
    BY <1>1, <1>6, <1>7, <1>8, <1>14, <1>15, Zenon
  <2> QED BY <1>1, <1>2, <1>6, <1>8, <1>14, <2>1, <2>2, WriteFrom, Zenon
<1>17. DueFrom(cs, 1, 0, f)
  <2>1. /\ cs[1] = WriteAll(WriteId(EbmlId))
        /\ cs[1 + 1] = WriteAll(WriteSize(Len(EbmlHeader)))
        /\ cs[1 + 2] = WriteAll(EbmlHeader)
    BY <1>8, NewCallsAre, Zenon DEF cs
  <2>2. DueFrom(cs, 1 + 3, 0 + Len(Element(EbmlId, EbmlHeader)), f)
    BY <1>4, <1>6, <1>7, <1>8, <1>16, Zenon
  <2>3. /\ 0 + Len(Element(EbmlId, EbmlHeader)) <= Len(f)
        /\ Lies(Element(EbmlId, EbmlHeader), f, 0 + 1)
    BY <1>1, <1>4, <1>5, <1>6, <1>7, Zenon
  <2> QED BY <1>1, <1>2, <1>3, <1>7, <1>8, <2>1, <2>2, <2>3, Ids,
             ElementFrom, Zenon
<1>18. Due(cs, 0, f) BY <1>1, <1>2, <1>17, DueFromEnds, Zenon
<1> QED BY <1>18, Zenon DEF cs, f

(* What new writes is laid out as a file without clusters. *)
HeaderCuts == [n \in 0 .. 0 |-> HeaderEnd]

LEMMA HeaderFileIs == Laid(HeaderFile, HeaderCuts, 0, << >>)
<1>1. HeaderEnd \in Nat BY HeaderPlaces, Zenon
<1>2. Len(<< >>) = 0 /\ 0 \in Nat OBVIOUS
<1>3. HeaderCuts \in [0 .. 0 -> Nat] /\ HeaderCuts[0] = HeaderEnd
  BY <1>1 DEF HeaderCuts
<1>4. \A n \in 1 .. 0 : FALSE OBVIOUS
<1>5. ClustersLaid(HeaderFile, HeaderCuts, << >>)
  BY <1>2, <1>3, <1>4, HeaderFileLaid, Zenon DEF ClustersLaid
<1> QED BY <1>2, <1>3, <1>5, HeaderFileLaid, Zenon DEF Laid

(* The calls of write_video and write_audio. *)
LEMMA EventCallsAre ==
  ASSUME NEW e
  PROVE  LET cs == EventCalls(e)
         IN  /\ Len(cs) = 4 /\ cs[1] = WriteAll(WriteId(ClusterId))
             /\ cs[2] = WriteAll(WriteSize(Len(PayloadOf(e))))
             /\ cs[3] = WriteAll(PayloadOf(e)) /\ cs[4] = Return(EndOf(e))
<1> DEFINE a == WriteAll(WriteId(ClusterId))
           b == WriteAll(WriteSize(Len(PayloadOf(e))))
           c == WriteAll(PayloadOf(e))  d == Return(EndOf(e))
<1>1. EventCalls(e) = << a, b, c >> \o << d >>
  BY Zenon DEF EventCalls, ElementCalls, PayloadOf
<1> HIDE DEF a, b, c, d
<1>2. LET s == << a, b, c >> \o << d >>
      IN  Len(s) = 4 /\ s[1] = a /\ s[2] = b /\ s[3] = c /\ s[4] = d
  OBVIOUS
<1> QED BY <1>1, <1>2, Zenon DEF a, b, c, d

(* They write the cluster of the event. *)
LEMMA EventDue ==
  ASSUME NEW e, Sound(e), EventCalls(e) \in Seq(Appends), NEW f \in Seq(Nat)
  PROVE  Due(EventCalls(e), Len(f), f \o ClusterOf(e))
<1> DEFINE cs == EventCalls(e)  g == f \o ClusterOf(e)
<1>1. /\ Len(cs) = 4 /\ cs[1] = WriteAll(WriteId(ClusterId))
      /\ cs[2] = WriteAll(WriteSize(Len(PayloadOf(e))))
      /\ cs[3] = WriteAll(PayloadOf(e)) /\ cs[4] = Return(EndOf(e))
  BY EventCallsAre, Zenon
<1>2. /\ PayloadOf(e) \in Seq(Nat) /\ Len(PayloadOf(e)) <= LargestSize
      /\ ClusterOf(e) \in Seq(Nat) /\ ClusterId \in Nat
  BY SoundCluster, Zenon
<1>3. g \in Seq(Nat) /\ Len(g) = Len(f) + Len(ClusterOf(e))
  BY <1>2, JoinIs, Zenon
<1>4. Lies(ClusterOf(e), g, Len(f) + 1) BY <1>2, LiesAtEnd, Zenon
<1>5. ClusterOf(e) = Element(ClusterId, PayloadOf(e)) BY Zenon DEF ClusterOf
<1> HIDE DEF cs, g
<1>6. /\ 4 \in 1 .. Len(cs) /\ 1 \in 1 .. Len(cs) - 2 /\ Len(cs) + 1 = 5
      /\ 4 + 1 = 5 /\ 1 + 1 = 2 /\ 1 + 2 = 3 /\ 1 + 3 = 4
      /\ Len(f) \in Nat /\ Len(g) \in Nat /\ Len(g) <= Len(g)
  BY <1>1, <1>3
<1>7. cs \in Seq(Appends) BY DEF cs
<1>8. DueFrom(cs, 5, Len(g), g) BY <1>3, <1>6, <1>7, DueFromEnds, Zenon
<1>9. DueFrom(cs, 4, Len(g), g)
  <2>1. SizeOf(cs[4]) = 0 /\ cs[4] \notin Writes BY <1>1, NoBytes, Zenon
  <2> QED BY <1>3, <1>6, <1>7, <1>8, <2>1, IdleFrom, Zenon
<1>10. DueFrom(cs, 1, Len(f), g)
  <2>1. /\ cs[1 + 1] = WriteAll(WriteSize(Len(PayloadOf(e))))
        /\ cs[1 + 2] = WriteAll(PayloadOf(e))
    BY <1>1, <1>6, Zenon
  <2>2. /\ DueFrom(cs, 1 + 3, Len(f) + Len(Element(ClusterId, PayloadOf(e))), g)
        /\ Len(f) + Len(Element(ClusterId, PayloadOf(e))) <= Len(g)
        /\ Lies(Element(ClusterId, PayloadOf(e)), g, Len(f) + 1)
    BY <1>3, <1>4, <1>5, <1>6, <1>9, Zenon
  <2> QED BY <1>1, <1>2, <1>3, <1>6, <1>7, <2>1, <2>2, ElementFrom, Zenon
<1>11. Due(cs, Len(f), g) BY <1>3, <1>7, <1>10, DueFromEnds, Zenon
<1> QED BY <1>11, Zenon DEF cs, g

(* One cluster more. *)
Further(cuts, n, l) == [i \in 0 .. n + 1 |-> IF i <= n THEN cuts[i] ELSE l]

(* One cut more. *)
LEMMA FurtherIs ==
  ASSUME NEW n \in Nat, NEW cuts \in [0 .. n -> Nat], NEW l \in Nat
  PROVE  /\ Further(cuts, n, l) \in [0 .. n + 1 -> Nat]
         /\ \A i \in 0 .. n : Further(cuts, n, l)[i] = cuts[i]
         /\ Further(cuts, n, l)[n + 1] = l
BY DEF Further

(* One event more. *)
LEMMA Appended ==
  ASSUME NEW s \in Seq(Events), NEW e \in Events
  PROVE  /\ Len(Append(s, e)) = Len(s) + 1 /\ Len(s) \in Nat
         /\ \A i \in 1 .. Len(s) : Append(s, e)[i] = s[i]
         /\ Append(s, e)[Len(s) + 1] = e
OBVIOUS

(* The header and the clusters stay where they are when one is added. *)
LEMMA LaidFurther ==
  ASSUME NEW out, NEW cuts, NEW d, NEW events \in Seq(Events),
         Laid(out, cuts, d, events), NEW e \in Events, Sound(e)
  PROVE  \E c : Laid(out \o ClusterOf(e), c, d, Append(events, e))
<1> DEFINE p == ClusterOf(e)  g == out \o p  ev == Append(events, e)
           n == Len(events)  c == Further(cuts, n, Len(g))
<1>1. /\ out \in Seq(Nat) /\ d \in Nat /\ n \in Nat /\ HeaderLaid(out, d)
      /\ ClustersLaid(out, cuts, events) /\ cuts[0] = HeaderEnd
  BY Zenon DEF Laid
<1>2. /\ cuts \in [0 .. n -> Nat] /\ cuts[n] = Len(out)
      /\ \A m \in 1 .. n :
           /\ Sound(events[m])
           /\ cuts[m] = cuts[m - 1] + Len(ClusterOf(events[m]))
           /\ Lies(ClusterOf(events[m]), out, cuts[m - 1] + 1)
  BY <1>1, Zenon DEF ClustersLaid
<1>3. p \in Seq(Nat) BY SoundCluster, Zenon
<1>4. g \in Seq(Nat) /\ Len(g) = Len(out) + Len(p)
      /\ Lies(p, g, Len(out) + 1)
  BY <1>1, <1>3, JoinIs, LiesAtEnd, Zenon
<1>5. /\ Len(ev) = n + 1 /\ \A i \in 1 .. n : ev[i] = events[i]
      /\ ev[n + 1] = e
  BY Appended, Zenon
<1>6. ASSUME NEW s \in Seq(Nat), NEW i \in Nat \ {0}, Lies(s, out, i),
             i + Len(s) - 1 <= Len(out)
      PROVE  Lies(s, g, i)
  BY <1>1, <1>3, <1>6, LiesFurther, Zenon
<1> HIDE DEF p, g, ev
<1>7. Len(g) \in Nat /\ Len(out) \in Nat BY <1>1, <1>4
<1>8. /\ c \in [0 .. n + 1 -> Nat] /\ \A i \in 0 .. n : c[i] = cuts[i]
      /\ c[n + 1] = Len(g)
  <2>1. n \in Nat /\ cuts \in [0 .. n -> Nat] /\ Len(g) \in Nat
    BY <1>1, <1>2, <1>7
  <2> HIDE DEF n
  <2>2. /\ Further(cuts, n, Len(g)) \in [0 .. n + 1 -> Nat]
        /\ \A i \in 0 .. n : Further(cuts, n, Len(g))[i] = cuts[i]
        /\ Further(cuts, n, Len(g))[n + 1] = Len(g)
    BY <2>1, FurtherIs
  <2> QED BY <2>2, Zenon
<1> HIDE DEF c
<1>9. HeaderEnd <= Len(out)
  <2>1. 0 \in 0 .. n /\ n \in 0 .. n BY <1>1
  <2> QED BY <1>1, <1>2, <2>1, CutsGrow, Zenon
<1>10. HeaderLaid(g, d)
  <2>1. /\ EbmlPart \in Seq(Nat) /\ InfoPart(d) \in Seq(Nat)
        /\ TracksPart \in Seq(Nat) /\ SegmentHead \in Seq(Nat)
        /\ Len(SegmentHead) = 12 /\ Len(InfoPart(d)) = Len(InfoPart(0))
        /\ Len(EbmlPart) \in Nat /\ Len(InfoPart(0)) \in Nat
        /\ Len(TracksPart) \in Nat
    <3>1. 0 \in Nat OBVIOUS
    <3> QED BY <1>1, <3>1, HeaderParts, Zenon
  <2>2. /\ Lies(EbmlPart, out, 1) /\ Lies(SegmentHead, out, Len(EbmlPart) + 1)
        /\ Lies(InfoPart(d), out, InfoAt) /\ Lies(TracksPart, out, TracksAt)
    BY <1>1, Zenon DEF HeaderLaid
  <2>3. PICK a \in Nat, i \in Nat, t \in Nat, h \in Nat, k \in Nat, r \in Nat,
             l \in Nat :
        /\ a = Len(EbmlPart) /\ i = InfoAt /\ t = TracksAt /\ h = HeaderEnd
        /\ k = Len(InfoPart(0)) /\ r = Len(TracksPart) /\ l = Len(out)
        /\ a + 12 = i - 1 /\ i + k = t /\ t + r = h + 1 /\ i # 0 /\ t # 0
    <3>1. /\ InfoAt \in Nat /\ TracksAt \in Nat /\ HeaderEnd \in Nat
          /\ InfoAt # 0 /\ TracksAt # 0
      BY HeaderPlaces
    <3> QED BY <1>7, <2>1, <3>1, HeaderPlaces, Zenon
  <2>4. h <= l BY <1>9, <2>3, Zenon
  <2>5. a + 12 = i - 1 /\ i + k = t /\ t + r = h + 1 /\ i # 0 /\ t # 0
    BY <2>3
  <2>6. /\ 1 + a - 1 <= l /\ a + 1 + 12 - 1 <= l /\ i + k - 1 <= l
        /\ t + r - 1 <= l /\ 1 \in Nat \ {0} /\ a + 1 \in Nat \ {0}
        /\ i \in Nat \ {0} /\ t \in Nat \ {0}
    BY <2>4, <2>5, SMT
  <2>7. Lies(EbmlPart, g, 1) BY <1>6, <2>1, <2>2, <2>3, <2>6, Zenon
  <2>8. Lies(SegmentHead, g, Len(EbmlPart) + 1)
    BY <1>6, <2>1, <2>2, <2>3, <2>6, Zenon
  <2>9. Lies(InfoPart(d), g, InfoAt)
    BY <1>6, <2>1, <2>2, <2>3, <2>6, Zenon
  <2>10. Lies(TracksPart, g, TracksAt)
    BY <1>6, <2>1, <2>2, <2>3, <2>6, Zenon
  <2> QED BY <2>7, <2>8, <2>9, <2>10, Zenon DEF HeaderLaid
<1>11. ASSUME NEW m \in 1 .. n + 1
       PROVE  /\ Sound(ev[m])
              /\ c[m] = c[m - 1] + Len(ClusterOf(ev[m]))
              /\ Lies(ClusterOf(ev[m]), g, c[m - 1] + 1)
  <2>1. CASE m = n + 1
    <3>1. (n + 1) - 1 = n /\ n \in 0 .. n BY <1>1
    <3>2. c[m] = Len(g) /\ c[m - 1] = Len(out) /\ ev[m] = e
      BY <1>2, <1>5, <1>8, <2>1, <3>1, Zenon
    <3> QED BY <1>4, <3>2, Zenon DEF p
  <2>2. CASE m # n + 1
    <3>1. m \in 1 .. n /\ m \in 0 .. n /\ m - 1 \in 0 .. n /\ n \in m .. n
      BY <1>1, <2>2
    <3>2. c[m] = cuts[m] /\ c[m - 1] = cuts[m - 1] /\ ev[m] = events[m]
      BY <1>5, <1>8, <3>1, Zenon
    <3>3. /\ Sound(events[m])
          /\ cuts[m] = cuts[m - 1] + Len(ClusterOf(events[m]))
          /\ Lies(ClusterOf(events[m]), out, cuts[m - 1] + 1)
      BY <1>2, <3>1, Zenon
    <3>4. /\ ClusterOf(events[m]) \in Seq(Nat)
          /\ Len(ClusterOf(events[m])) \in Nat
      BY <3>3, SoundCluster
    <3>5. cuts[m] <= Len(out)
      BY <1>1, <1>2, <3>1, CutsGrow, Zenon
    <3>6. PICK x \in Nat, y \in Nat, z \in Nat :
            /\ x = cuts[m - 1] /\ y = Len(ClusterOf(events[m])) /\ z = Len(out)
      <4>1. cuts[m - 1] \in Nat BY <1>2, <3>1
      <4> QED BY <1>7, <3>4, <4>1, Zenon
    <3>7. x + y <= z BY <3>3, <3>5, <3>6, Zenon
    <3>8. x + 1 + y - 1 <= z /\ x + 1 \in Nat \ {0} BY <3>7
    <3>9. Lies(ClusterOf(events[m]), g, cuts[m - 1] + 1)
      BY <1>6, <3>3, <3>4, <3>6, <3>8, Zenon
    <3> QED BY <3>2, <3>3, <3>9, Zenon
  <2> QED BY <2>1, <2>2
<1>12. ClustersLaid(g, c, ev) BY <1>5, <1>8, <1>11, Zenon DEF ClustersLaid
<1>13. Laid(g, c, d, ev)
  <2>1. c[0] = HeaderEnd
    <3>1. 0 \in 0 .. n BY <1>1
    <3> QED BY <1>1, <1>8, <3>1, Zenon
  <2>2. Len(ev) \in Nat BY <1>1, <1>5
  <2> QED BY <1>1, <1>4, <1>10, <1>12, <2>1, <2>2, Zenon DEF Laid
<1> QED BY <1>13, Zenon DEF g, ev, p

-----------------------------------------------------------------------------
(* The contract: what a reader finds and the duration. *)

(* x is the greatest end of these events, 0 if there are none. *)
IsWhole(events, x) ==
  /\ x \in Nat /\ \A i \in 1 .. Len(events) : EndOf(events[i]) <= x
  /\ x = 0 \/ \E i \in 1 .. Len(events) : x = EndOf(events[i])

(* An event ends at some time. *)
LEMMA EndType == ASSUME NEW e \in Events PROVE EndOf(e) \in Nat
BY DEF Events, EndOf

Later(x, y) == IF x > y THEN x ELSE y

(* The greatest end with one event more. *)
LEMMA WholeFurther ==
  ASSUME NEW events \in Seq(Events), NEW e \in Events, NEW x,
         IsWhole(events, x)
  PROVE  IsWhole(Append(events, e), Later(EndOf(e), x))
<1> DEFINE ev == Append(events, e)  n == Len(events)  y == EndOf(e)
           z == Later(y, x)
<1>1. /\ x \in Nat /\ \A i \in 1 .. n : EndOf(events[i]) <= x
      /\ x = 0 \/ \E i \in 1 .. n : x = EndOf(events[i])
  BY Zenon DEF IsWhole
<1>2. y \in Nat /\ n \in Nat BY EndType
<1>3. z \in Nat /\ x <= z /\ y <= z /\ (z = x \/ z = y)
  BY <1>1, <1>2 DEF Later
<1>4. /\ Len(ev) = n + 1 /\ \A i \in 1 .. n : ev[i] = events[i]
      /\ ev[n + 1] = e
  BY Appended, Zenon
<1>5. \A i \in 1 .. n : EndOf(events[i]) \in Nat
  <2>1. \A i \in 1 .. n : events[i] \in Events OBVIOUS
  <2> QED BY <2>1, EndType, Zenon
<1>6. \A i \in 1 .. n : i \in 1 .. n + 1 BY <1>2
<1>7. n + 1 \in 1 .. n + 1 /\ \A i \in 1 .. n + 1 : i \in 1 .. n \/ i = n + 1
  BY <1>2
<1> HIDE DEF ev, n, y, z
<1>8. ASSUME NEW i \in 1 .. n + 1 PROVE EndOf(ev[i]) <= z
  <2>1. CASE i = n + 1 BY <1>3, <1>4, <2>1, Zenon DEF y
  <2>2. CASE i \in 1 .. n
    <3>1. EndOf(events[i]) <= x /\ EndOf(events[i]) \in Nat
      BY <1>1, <1>5, <2>2, Zenon
    <3>2. EndOf(ev[i]) = EndOf(events[i]) BY <1>4, <2>2, Zenon
    <3> QED BY <1>1, <1>3, <3>1, <3>2, SMT
  <2> QED BY <1>7, <2>1, <2>2
<1>9. z = 0 \/ \E i \in 1 .. n + 1 : z = EndOf(ev[i])
  <2>1. CASE z = y BY <1>4, <1>7, <2>1, Zenon DEF y
  <2>2. CASE z = x BY <1>1, <1>4, <1>6, <2>2, Zenon
  <2> QED BY <1>3, <2>1, <2>2
<1>10. IsWhole(ev, z) BY <1>3, <1>4, <1>8, <1>9, Zenon DEF IsWhole
<1> QED BY <1>10, Zenon DEF ev, z, y

(* It is the whole duration the contract asks for. *)
LEMMA WholeIs ==
  ASSUME written \in Seq(Events), NEW x, IsWhole(written, x)
  PROVE  Recording!WholeDuration = x
<1> DEFINE E == Recording!Ends \cup {0}
<1>1. /\ x \in Nat /\ \A i \in 1 .. Len(written) : EndOf(written[i]) <= x
      /\ x = 0 \/ \E i \in 1 .. Len(written) : x = EndOf(written[i])
  BY Zenon DEF IsWhole
<1>2. Recording!Ends = {EndOf(written[i]) : i \in 1 .. Len(written)}
  BY Zenon DEF Recording!Ends
<1>3. x \in E BY <1>1, <1>2, Zenon
<1>4. \A y \in E : y \in Nat /\ y <= x
  <2>1. \A i \in 1 .. Len(written) : EndOf(written[i]) \in Nat
    <3>1. \A i \in 1 .. Len(written) : written[i] \in Events OBVIOUS
    <3> QED BY <3>1, EndType, Zenon
  <2>2. 0 \in Nat /\ 0 <= x BY <1>1
  <2> QED BY <1>1, <1>2, <2>1, <2>2, Zenon
<1>5. Recording!WholeDuration = CHOOSE y \in E : \A z \in E : z <= y
  BY Zenon DEF Recording!WholeDuration
<1> HIDE DEF E
<1>6. \A y \in E : (\A z \in E : z <= y) => y = x
  <2> SUFFICES ASSUME NEW y \in E, \A z \in E : z <= y PROVE y = x
    BY Zenon
  <2>1. x <= y /\ y <= x /\ y \in Nat BY <1>3, <1>4, Zenon
  <2> QED BY <1>1, <2>1
<1>7. \A z \in E : z <= x BY <1>4, Zenon
<1> QED BY <1>3, <1>5, <1>6, <1>7, Zenon

-----------------------------------------------------------------------------
(* What a reader of the file sees of a step.                                *)

(* Of the same file more has come to be there. *)
Grows == /\ InfoDuration[disk'] = InfoDuration[disk]
         /\ \E n \in 0 .. Len(written) : \E m \in n .. Len(written) :
              /\ Blocks[disk] = Views(written, n)
              /\ Blocks[disk'] = Views(written, m)

(* The Duration has come to be that of all the events, which are all there. *)
Renews == /\ Blocks[disk] = Views(written, Len(written))
          /\ Blocks[disk'] = Blocks[disk]
          /\ IsWhole(written, InfoDuration[disk'])

Stored(out, cuts, d) ==
  Laid(out, cuts, d, written) /\ Begins(disk, out) /\ (d = 0 \/ HeaderEnd <= Len(disk))

(* If more of the file is there, a reader finds no fewer events. *)
LEMMA GrowsRead ==
  ASSUME NEW out, NEW cuts, NEW d, Stored(out, cuts, d), Begins(disk', out),
         Len(disk) <= Len(disk')
  PROVE  Grows /\ (d = 0 \/ HeaderEnd <= Len(disk'))
<1>1. /\ Laid(out, cuts, d, written) /\ Begins(disk, out)
      /\ d = 0 \/ HeaderEnd <= Len(disk)
  BY Zenon DEF Stored
<1>2. /\ Len(written) \in Nat /\ ClustersLaid(out, cuts, written)
  BY <1>1, Zenon DEF Laid
<1>3. disk \in Seq(Nat) /\ disk' \in Seq(Nat) BY <1>1, Zenon DEF Begins
<1>4. PICK k \in Nat, l \in Nat, h \in Nat :
        k = Len(disk) /\ l = Len(disk') /\ h = HeaderEnd /\ k <= l
  <2>1. Len(disk) \in Nat /\ Len(disk') \in Nat BY <1>3
  <2> QED BY <2>1, HeaderPlaces, Zenon
<1>5. d = 0 \/ HeaderEnd <= Len(disk')
  <2>1. h <= k /\ k <= l => h <= l OBVIOUS
  <2> QED BY <1>1, <1>4, <2>1, Zenon
<1>6. PICK n \in 0 .. Len(written) : IsCount(n, disk, cuts, written)
  BY <1>1, <1>2, CountExists, Zenon
<1>7. PICK m \in 0 .. Len(written) : IsCount(m, disk', cuts, written)
  BY <1>2, CountExists, Zenon
<1>8. Reads(disk, d, written, n) BY <1>1, <1>6, FileRead, Zenon
<1>9. Reads(disk', d, written, m) BY <1>1, <1>5, <1>7, FileRead, Zenon
<1>10. m \in n .. Len(written)
  <2>1. CASE ~(n <= m)
    <3>1. /\ n # 0 /\ m # Len(written) /\ m + 1 \in 0 .. Len(written)
          /\ n \in m + 1 .. Len(written)
      BY <1>2, <2>1
    <3>2. cuts[n] <= Len(disk) /\ Len(disk') < cuts[m + 1]
      BY <1>6, <1>7, <3>1, Zenon DEF IsCount
    <3>3. cuts[m + 1] <= cuts[n] BY <1>2, <3>1, CutsGrow, Zenon
    <3>4. cuts[n] \in Nat /\ cuts[m + 1] \in Nat
      <4>1. cuts \in [0 .. Len(written) -> Nat]
        BY <1>2, Zenon DEF ClustersLaid
      <4> QED BY <3>1, <4>1
    <3> QED BY <1>4, <3>2, <3>3, <3>4
  <2>2. CASE n <= m BY <1>2, <2>2
  <2> QED BY <2>1, <2>2
<1> QED BY <1>5, <1>8, <1>9, <1>10, Zenon DEF Grows, Reads

(* All of the file is there. *)
LEMMA AllRead ==
  ASSUME NEW out, NEW cuts, NEW d, NEW events, Laid(out, cuts, d, events),
         NEW f, Begins(f, out), Len(f) = Len(out)
  PROVE  Reads(f, d, events, Len(events)) /\ HeaderEnd <= Len(f)
<1>1. /\ Len(events) \in Nat /\ ClustersLaid(out, cuts, events)
      /\ cuts[0] = HeaderEnd
  BY Zenon DEF Laid
<1>2. 0 \in 0 .. Len(events) /\ Len(events) \in 0 .. Len(events) BY <1>1
<1>3. cuts[Len(events)] = Len(f) BY <1>1, Zenon DEF ClustersLaid
<1>4. HeaderEnd <= Len(f) BY <1>1, <1>2, <1>3, CutsGrow, Zenon
<1>5. Len(f) <= Len(f)
  <2>1. f \in Seq(Nat) BY Zenon DEF Begins
  <2> QED BY <2>1
<1>6. IsCount(Len(events), f, cuts, events)
  BY <1>2, <1>3, <1>5, Zenon DEF IsCount
<1> QED BY <1>4, <1>6, FileRead, Zenon

(* A file is a beginning of itself. *)
LEMMA ItsBeginning == ASSUME NEW f \in Seq(Nat) PROVE Begins(f, f)
BY DEF Begins

(* The eight bytes are written over. *)
LEMMA RenewsRead ==
  ASSUME NEW out, NEW cuts, NEW d, Stored(out, cuts, d),
         Len(disk) = Len(out), Rewrites, disk' \in Seq(Nat),
         Len(disk') = Len(disk), NEW m, IsWhole(written, m),
         Lies(F64(m), disk', DurationOffset + 1), written' = written
  PROVE  Renews /\ \E o : Stored(o, cuts, m)' /\ Len(disk') = Len(o)
<1>1. Laid(out, cuts, d, written) /\ Begins(disk, out) BY Zenon DEF Stored
<1>2. disk \in Seq(Nat) /\ out \in Seq(Nat)
      /\ \A j \in 1 .. Len(disk) : disk[j] = out[j]
  BY <1>1, Zenon DEF Begins
<1>3. Redone(out, disk', DurationOffset)
  BY <1>2, Zenon DEF Redone, Rewrites
<1>4. m \in Nat BY Zenon DEF IsWhole
<1>5. PICK o : o = disk' BY Zenon
<1>6. Laid(o, cuts, m, written) BY <1>1, <1>3, <1>4, <1>5, LaidRedone, Zenon
<1>7. Begins(disk', o) /\ Len(disk') = Len(o) BY <1>5, ItsBeginning, Zenon
<1>8. Reads(disk', m, written, Len(written)) /\ HeaderEnd <= Len(disk')
  BY <1>6, <1>7, AllRead, Zenon
<1>9. Reads(disk, d, written, Len(written)) BY <1>1, AllRead, Zenon
<1>10. Stored(o, cuts, m)' BY <1>6, <1>7, <1>8, Zenon DEF Stored
<1> QED BY <1>7, <1>8, <1>9, <1>10, Zenon DEF Renews, Reads

-----------------------------------------------------------------------------
(* The end of a method. *)

Io == Copy \/ Drain \/ Direct \/ SeekDone \/ FlushDone

(* What the calls that are left become in a step of one of them. *)
LEMMA CallsStep ==
  ASSUME Io, calls # << >>
  PROVE  /\ written' = written /\ maximum_end_us' = maximum_end_us
         /\ phase' = phase /\ result' = result
         /\ \/ calls' = calls
            \/ Call.op # "return" /\ calls' = Tail(calls)
            \/ \E w : /\ w.op = "write_all" /\ Call.op # "return"
                      /\ calls' = << w >> \o Tail(calls)
<1>1. CASE Copy
  BY <1>1 DEF Copy, Copies, clientVars
<1>2. CASE Drain
  BY <1>2, Zenon DEF Drain, clientVars
<1>3. CASE Direct
  <2>1. Call.op = "write_all" /\ phase' = phase /\ UNCHANGED clientVars
    BY <1>3, Zenon DEF Direct, Directs
  <2>2. Call.op # "return" BY <2>1
  <2>3. PICK k \in Taken(Len(Call.bytes)) :
          calls' = IF k = Len(Call.bytes) THEN Tail(calls)
                   ELSE << Rest(Call.bytes, k) >> \o Tail(calls)
    BY <1>3, Zenon DEF Direct
  <2>4. Rest(Call.bytes, k).op = "write_all" BY DEF Rest
  <2>5. \/ calls' = Tail(calls)
        \/ calls' = << Rest(Call.bytes, k) >> \o Tail(calls)
    BY <2>3, Zenon
  <2>6. \/ calls' = Tail(calls)
        \/ \E w : w.op = "write_all" /\ calls' = << w >> \o Tail(calls)
    BY <2>4, <2>5, Zenon
  <2> QED BY <2>1, <2>2, <2>6, Zenon DEF clientVars
<1>4. CASE SeekDone
  BY <1>4 DEF SeekDone, clientVars
<1>5. CASE FlushDone
  BY <1>5 DEF FlushDone, clientVars
<1> QED BY <1>1, <1>2, <1>3, <1>4, <1>5, Zenon DEF Io

(* A method ends with a return, its only one, and what it returns makes the *)
(* duration that is remembered that of all the events.                      *)
Timely ==
  /\ calls = << >> => IsWhole(written, maximum_end_us)
  /\ calls # << >> =>
       /\ calls[Len(calls)].op = "return"
       /\ IsWhole(written, Later(calls[Len(calls)].end, maximum_end_us))
  /\ \A i \in 1 .. Len(calls) : calls[i].op = "return" => i = Len(calls)

(* Calls before the last. *)
LEMMA Positions ==
  ASSUME NEW n \in Nat \ {0, 1}
  PROVE /\ n - 1 \in 1 .. n - 1 /\ n - 1 + 1 = n /\ n \in Nat /\ n - 1 # 0
        /\ \A i \in 1 .. n - 1 : i + 1 \in 1 .. n /\ (i + 1 = n => i = n - 1)
        /\ n \in 2 .. n
        /\ \A i \in 2 .. n : /\ i \in 1 .. n /\ i - 1 \in 1 .. n - 1
                             /\ i - 1 + 1 = i
        /\ \A i \in 1 .. n : i = 1 \/ i \in 2 .. n
OBVIOUS

(* A step of a call leaves the return the last. *)
LEMMA TimelyStep ==
  ASSUME FileTypes, Timely, Io, calls # << >> PROVE Timely'
<1>1. calls \in Seq(Calls) BY DEF FileTypes
<1>2. /\ Call = calls[1] /\ Call \in Calls /\ Tail(calls) \in Seq(Calls)
      /\ Len(calls) \in Nat \ {0} /\ Len(Tail(calls)) = Len(calls) - 1
      /\ \A i \in 1 .. Len(calls) - 1 : Tail(calls)[i] = calls[i + 1]
  BY <1>1, FirstCall, Zenon
<1>3. /\ written' = written /\ maximum_end_us' = maximum_end_us
      /\ \/ calls' = calls
         \/ Call.op # "return" /\ calls' = Tail(calls)
         \/ \E w : /\ w.op = "write_all" /\ Call.op # "return"
                   /\ calls' = << w >> \o Tail(calls)
  BY CallsStep, Zenon
<1> DEFINE Fits(c) == /\ c.op = "return"
                      /\ IsWhole(written, Later(c.end, maximum_end_us))
<1>4. /\ Fits(calls[Len(calls)])
      /\ \A i \in 1 .. Len(calls) : calls[i].op = "return" => i = Len(calls)
  BY Zenon DEF Timely
<1>5. ASSUME calls' # << >>, Fits(calls'[Len(calls')]),
             \A i \in 1 .. Len(calls') :
               calls'[i].op = "return" => i = Len(calls')
      PROVE  Timely'
  BY <1>3, <1>5, Zenon DEF Timely
<1>6. Fits(Call) => Call.op = "return" BY Zenon
<1> HIDE DEF Fits
<1>7. CASE calls' = calls BY <1>4, <1>5, <1>7, Zenon
<1>8. CASE Call.op # "return"
  <2> DEFINE n == Len(calls)
  <2>1. n # 1 BY <1>2, <1>4, <1>6, <1>8, Zenon
  <2>2. /\ n - 1 \in 1 .. n - 1 /\ n - 1 + 1 = n /\ n \in Nat /\ n - 1 # 0
        /\ \A i \in 1 .. n - 1 : i + 1 \in 1 .. n /\ (i + 1 = n => i = n - 1)
        /\ n \in 2 .. n
        /\ \A i \in 2 .. n : /\ i \in 1 .. n /\ i - 1 \in 1 .. n - 1
                             /\ i - 1 + 1 = i
        /\ \A i \in 1 .. n : i = 1 \/ i \in 2 .. n
    <3>1. n \in Nat \ {0, 1} BY <1>2, <2>1
    <3> HIDE DEF n
    <3> QED BY <3>1, Positions
  <2>3. Tail(calls) # << >> BY <1>2, <2>2
  <2> HIDE DEF n
  <2>4. CASE calls' = Tail(calls)
    <3>1. Len(calls') = n - 1 BY <1>2, <2>4, Zenon DEF n
    <3>2. \A i \in 1 .. n - 1 : calls'[i] = calls[i + 1]
      BY <1>2, <2>4, Zenon DEF n
    <3>3. Fits(calls'[Len(calls')])
      BY <1>4, <2>2, <3>1, <3>2, Zenon DEF n
    <3>4. ASSUME NEW i \in 1 .. Len(calls'), calls'[i].op = "return"
          PROVE  i = Len(calls')
      <4>1. i \in 1 .. n - 1 BY <3>1, <3>4, Zenon
      <4>2. calls[i + 1].op = "return" BY <3>2, <3>4, <4>1, Zenon
      <4>3. i + 1 = n BY <1>4, <2>2, <4>1, <4>2, Zenon DEF n
      <4> QED BY <2>2, <3>1, <4>1, <4>3, Zenon
    <3> QED BY <1>5, <2>3, <2>4, <3>3, <3>4, Zenon
  <2>5. ASSUME NEW w, w.op = "write_all", calls' = << w >> \o Tail(calls)
        PROVE  Timely'
    <3>1. /\ Len(calls') = n /\ calls'[1] = w
          /\ \A i \in 2 .. n : calls'[i] = Tail(calls)[i - 1]
      <4> DEFINE S == Calls \cup {w}
      <4>1. Tail(calls) \in Seq(S) /\ w \in S BY <1>2
      <4> HIDE DEF S
      <4>2. /\ Len(<< w >> \o Tail(calls)) = Len(Tail(calls)) + 1
            /\ (<< w >> \o Tail(calls))[1] = w
            /\ \A i \in 2 .. Len(Tail(calls)) + 1 :
                 (<< w >> \o Tail(calls))[i] = Tail(calls)[i - 1]
        BY <4>1, Prepended, ZenonT(30)
      <4>3. Len(Tail(calls)) + 1 = n BY <1>2, <2>2, Zenon DEF n
      <4> QED BY <2>5, <4>2, <4>3, Zenon
    <3>2. \A i \in 2 .. n : calls'[i] = calls[i]
      <4> SUFFICES ASSUME NEW i \in 2 .. n PROVE calls'[i] = calls[i]
        BY Zenon
      <4>1. i - 1 \in 1 .. n - 1 /\ i - 1 + 1 = i BY <2>2, Zenon
      <4>2. Tail(calls)[i - 1] = calls[i - 1 + 1]
        BY <1>2, <4>1, Zenon DEF n
      <4> QED BY <3>1, <4>1, <4>2, Zenon
    <3>3. Fits(calls'[Len(calls')])
      BY <1>4, <2>2, <3>1, <3>2, Zenon DEF n
    <3>4. w.op # "return" BY <2>5
    <3>5. ASSUME NEW i \in 1 .. Len(calls'), calls'[i].op = "return"
          PROVE  i = Len(calls')
      <4>1. i = 1 \/ (i \in 2 .. n /\ i \in 1 .. n) BY <2>2, <3>1, Zenon
      <4>2. i \in 2 .. n /\ i \in 1 .. n BY <3>1, <3>4, <3>5, <4>1, Zenon
      <4>3. calls[i].op = "return" BY <3>2, <3>5, <4>2, Zenon
      <4> QED BY <1>4, <3>1, <4>2, <4>3, Zenon DEF n
    <3>6. calls' # << >>
      <4>1. Len(<< >>) = 0 /\ n # 0 BY <2>2
      <4> QED BY <3>1, <4>1, Zenon
    <3> QED BY <1>5, <3>3, <3>5, <3>6, Zenon
  <2> QED BY <1>3, <1>7, <2>4, <2>5, Zenon
<1> QED BY <1>3, <1>7, <1>8, Zenon

(* A method that has just begun. *)
LEMMA TimelyCalls ==
  ASSUME NEW n \in Nat \ {0}, NEW e, Len(calls') = n,
         \A i \in 1 .. n - 1 : calls'[i].op # "return",
         calls'[n] = Return(e),
         IsWhole(written', Later(e, maximum_end_us'))
  PROVE  Timely'
<1>1. Return(e).op = "return" /\ Return(e).end = e BY DEF Return
<1>2. \A i \in 1 .. n : i \in 1 .. n - 1 \/ i = n OBVIOUS
<1>3. calls' # << >>
  <2>1. Len(<< >>) = 0 /\ n # 0 OBVIOUS
  <2> QED BY <2>1, Zenon
<1>4. \A i \in 1 .. Len(calls') :
        calls'[i].op = "return" => i = Len(calls')
  BY <1>2, Zenon
<1> QED BY <1>1, <1>3, <1>4, Zenon DEF Timely

(* A method that returns. *)
LEMMA TimelyReturn ==
  ASSUME FileTypes, Timely, MethodReturns
  PROVE  Timely' /\ Len(calls) = 1
<1>1. calls \in Seq(Calls) /\ calls # << >> /\ Call.op = "return"
  BY Zenon DEF FileTypes, MethodReturns
<1>2. Call = calls[1] /\ Len(calls) \in Nat \ {0} BY <1>1, FirstCall, Zenon
<1>3. 1 \in 1 .. Len(calls) BY <1>2
<1>4. Len(calls) = 1 /\ IsWhole(written, Later(Call.end, maximum_end_us))
  BY <1>1, <1>2, <1>3, Zenon DEF Timely
<1>5. /\ maximum_end_us' = Later(Call.end, maximum_end_us)
      /\ calls' = << >> /\ written' = written
  BY Zenon DEF MethodReturns, Later
<1>6. \A i \in 1 .. Len(<< >>) : FALSE OBVIOUS
<1> QED BY <1>4, <1>5, <1>6, Zenon DEF Timely

-----------------------------------------------------------------------------
(* The inductive invariant: besides FileInv there is a recording that the *)
(* file is a beginning of, and whose rest the calls are to write.         *)

(* The steps of an update, with what they find in the file: all of it is    *)
(* there before the Duration is written over.                               *)
Renewing(out, d) ==
  \/ Left(6) /\ position = Len(disk) /\ Agree(out) /\ Total = Len(out)
  \/ /\ HeaderStored /\ end = Len(disk) /\ Len(disk) = Len(out)
     /\ \/ Left(5) /\ buffer = << >> /\ position = Len(disk)
        \/ Left(4) /\ buffer = << >> /\ position = DurationOffset
        \/ Left(3) /\ buffer = << >> /\ d = maximum_end_us
        \/ Left(3) /\ OverDuration /\ buffer = F64(maximum_end_us)

Leaving(out) ==
  \/ position = Len(disk) /\ Agree(out)
  \/ buffer = << >>
  \/ /\ OverDuration /\ Len(disk) = Len(out)
     /\ \E m : IsWhole(written, m) /\ buffer = F64(m)

(* A capture that ends well has all of the file and its duration. *)
Ending(out, d) ==
  /\ result = "finalizing" =>
       /\ phase = "open"
       /\ \/ Renewing(out, d)
          \/ Len(disk) = Len(out) /\ IsWhole(written, d)
  /\ result = "Ok" => /\ phase \in {"drop", "exit"} /\ buffer = << >>
                      /\ Len(disk) = Len(out) /\ IsWhole(written, d)

Content(out, cuts, d) ==
  /\ Stored(out, cuts, d)
  /\ phase \in {"new", "open"} =>
       /\ Timely
       /\ \/ Appending /\ Ahead(out)
          \/ phase = "open" /\ Renewing(out, d)
  /\ phase = "drop" => Leaving(out)
  /\ Ending(out, d)

(* How many calls of an update are left. *)
LEMMA LeftNumbers ==
  /\ 6 \in 3 .. 6 /\ 5 \in 3 .. 6 /\ 4 \in 3 .. 6 /\ 3 \in 3 .. 6
  /\ 6 - 1 = 5 /\ 5 - 1 = 4 /\ 4 - 1 = 3 /\ 3 - 1 = 2
  /\ 7 - 6 = 1 /\ 7 - 5 = 2 /\ 7 - 4 = 3 /\ 7 - 3 = 4
OBVIOUS

(* An update seeks, which a method that appends does not. *)
LEMMA LeftNotAppending ==
  ASSUME FileTypes, NEW n \in 3 .. 6, Left(n) PROVE ~Appending
<1>1. n - 2 \in 1 .. n /\ 6 - n + (n - 2) = 4 OBVIOUS
<1>2. calls[n - 2] = FlushCalls[4] BY <1>1, Zenon DEF Left
<1>3. FlushCalls[4] = Seek("remembered")
  BY UpdateCalls, Zenon DEF FileTypes
<1>4. Seek("remembered") \notin Appends
  <2>1. Seek("remembered").op = "seek" /\ Seek("remembered").to = "remembered"
    BY DEF Seek
  <2>2. Seek("current").to = "current" BY DEF Seek
  <2>3. Seek("remembered") # Seek("current") BY <2>1, <2>2
  <2> QED BY <2>1, <2>3, AppendsAre, Zenon
<1>5. n - 2 \in 1 .. Len(calls) BY <1>1, Zenon DEF Left
<1>6. ASSUME calls \in Seq(Appends) PROVE FALSE
  <2>1. calls[n - 2] \in Appends BY <1>5, <1>6
  <2> QED BY <1>2, <1>3, <1>4, <2>1, Zenon
<1> QED BY <1>6, Zenon DEF Appending

(* The two kinds of methods are not mistaken for each other. *)
LEMMA RenewingNotAppending ==
  ASSUME FileTypes, NEW out, NEW d, Renewing(out, d)
  PROVE  ~Appending /\ calls # << >> /\ Call.op # "return"
<1>1. \E n \in 3 .. 6 : Left(n) BY LeftNumbers, Zenon DEF Renewing
<1>2. PICK n \in 3 .. 6 : Left(n) BY <1>1
<1>3. ~Appending BY <1>2, LeftNotAppending, Zenon
<1>4. n = 6 \/ n = 5 \/ n = 4 \/ n = 3 OBVIOUS
<1>5. ASSUME NEW to, Call = Seek(to) PROVE Call.op # "return"
  BY <1>5 DEF Seek
<1>6. Call \in Writes => Call.op # "return" BY DEF Writes
<1>7. calls # << >> /\ (n = 6 => Call = Seek("end"))
      /\ (n = 5 => Call = Seek("duration")) /\ (n = 4 => Call \in Writes)
      /\ (n = 3 => Call = Seek("remembered"))
  BY <1>2, LeftCall, Zenon
<1> QED BY <1>3, <1>4, <1>5, <1>6, <1>7, Zenon

(* At an update the duration that is remembered is that of all the events. *)
LEMMA WholeNow ==
  ASSUME FileTypes, Timely, NEW n \in 3 .. 6, Left(n)
  PROVE  IsWhole(written, maximum_end_us)
<1>1. n \in 1 .. n /\ 6 - n + n = 6 OBVIOUS
<1>2. calls[n] = FlushCalls[6] /\ Len(calls) = n BY <1>1, Zenon DEF Left
<1>3. maximum_end_us \in Nat BY Zenon DEF FileTypes
<1>4. FlushCalls[6] = Return(0) BY <1>3, UpdateCalls, Zenon
<1>5. Return(0).op = "return" /\ Return(0).end = 0 BY DEF Return
<1>6. Later(0, maximum_end_us) = maximum_end_us BY <1>3 DEF Later
<1>7. calls[n].op = "return" /\ calls[n].end = 0 BY <1>2, <1>4, <1>5, Zenon
<1> QED BY <1>1, <1>2, <1>6, <1>7, Zenon DEF Timely

(* The write of an update writes the remembered duration. *)
LEMMA DurationCall ==
  ASSUME FileTypes, Left(4)
  PROVE  /\ Call.bytes = F64(maximum_end_us) /\ Call \in Writes
         /\ Call.op = "write_all" /\ Len(Call.bytes) = 8
         /\ Call.bytes \in Seq(Nat)
<1>1. Call = FlushCalls[3] /\ Call \in Writes /\ Len(Call.bytes) = 8
  BY LeftNumbers, LeftCall, Zenon
<1>2. FlushCalls[3] = WriteAll(F64(maximum_end_us)) BY DEF FlushCalls
<1>3. WriteAll(F64(maximum_end_us)).bytes = F64(maximum_end_us)
  BY DEF WriteAll
<1>4. Call.op = "write_all" /\ Call.bytes \in Seq(Nat) BY <1>1 DEF Writes
<1> QED BY <1>1, <1>2, <1>3, <1>4, Zenon

(* What is written over the Duration lies there. *)
LEMMA LiesOver ==
  ASSUME NEW b, Len(b) = 8, \A i \in 1 .. 8 : disk'[DurationOffset + i] = b[i]
  PROVE  Lies(b, disk', DurationOffset + 1)
<1>1. PICK p \in Nat : p = DurationOffset BY DurationPlace, Zenon
<1>2. \A i \in 1 .. 8 : p + 1 + i - 1 = p + i OBVIOUS
<1> QED BY <1>1, <1>2, Zenon DEF Lies

(* What is left of an update when it is back at the end. *)
LEMMA FlushDue ==
  ASSUME NEW cs \in Seq(Appends), Len(cs) = 2, cs[1] = Flush,
         cs[2] = Return(0), NEW out \in Seq(Nat)
  PROVE  Due(cs, Len(out), out)
<1>1. /\ 1 \in 1 .. Len(cs) /\ 2 \in 1 .. Len(cs) /\ 1 + 1 = 2 /\ 2 + 1 = 3
      /\ Len(cs) + 1 = 3 /\ Len(out) \in Nat /\ Len(out) <= Len(out)
  OBVIOUS
<1>2. SizeOf(Flush) = 0 /\ Flush \notin Writes BY DEF SizeOf, Flush, Writes
<1>3. DueFrom(cs, 3, Len(out), out) BY <1>1, DueFromEnds, Zenon
<1>4. DueFrom(cs, 2, Len(out), out)
  BY <1>1, <1>3, NoBytes, IdleFrom, Zenon
<1>5. DueFrom(cs, 1, Len(out), out)
  BY <1>1, <1>2, <1>4, IdleFrom, Zenon
<1> QED BY <1>5, DueFromEnds, Zenon

-----------------------------------------------------------------------------
(* Steps of write_duration. *)

(* A step that leaves the file as it is. *)
LEMMA SameFile ==
  ASSUME NEW out, NEW cuts, NEW d, Stored(out, cuts, d), disk' = disk,
         written' = written
  PROVE  Stored(out, cuts, d)' /\ Grows
<1>1. Begins(disk', out) BY Zenon DEF Stored
<1>2. Len(disk) <= Len(disk')
  <2>1. disk \in Seq(Nat) BY Zenon DEF Stored, Begins
  <2> QED BY <2>1
<1>3. Grows BY <1>1, <1>2, GrowsRead, Zenon
<1> QED BY <1>3, Zenon DEF Stored

(* A step that lets it grow. *)
LEMMA GrownFile ==
  ASSUME NEW out, NEW cuts, NEW d, Stored(out, cuts, d), Agree(out)',
         Rewrites, written' = written, disk \in Seq(Nat)
  PROVE  Stored(out, cuts, d)' /\ Grows
<1>1. Begins(disk', out) BY Zenon DEF Agree
<1>2. Len(disk) <= Len(disk')
  <2>1. Len(disk') >= Len(disk) BY Zenon DEF Rewrites
  <2>2. disk' \in Seq(Nat) BY <1>1, Zenon DEF Begins
  <2> QED BY <2>1, <2>2
<1>3. Grows BY <1>1, <1>2, GrowsRead, Zenon
<1>4. ASSUME d # 0 PROVE HeaderEnd <= Len(disk')
  <2>1. HeaderEnd <= Len(disk) BY <1>4, Zenon DEF Stored
  <2>2. disk' \in Seq(Nat) BY <1>1, Zenon DEF Begins
  <2>3. HeaderEnd \in Nat BY HeaderPlaces, Zenon
  <2> QED BY <1>2, <2>1, <2>2, <2>3
<1> QED BY <1>1, <1>3, <1>4, Zenon DEF Stored

(* What a step of an update comes to. *)
Renewed(o, cuts, x) ==
  /\ Stored(o, cuts, x)' /\ (Grows \/ Renews)
  /\ \/ Renewing(o, x)'
     \/ /\ Appending' /\ Ahead(o)' /\ Len(disk') = Len(o)
        /\ IsWhole(written', x)

(* What a seek of an update seeks. *)
LEMMA SeekKinds ==
  ASSUME NEW to, Call = Seek(to)
  PROVE  /\ Call.op = "seek" /\ Call.to = to
         /\ ~Copy /\ ~Direct /\ ~FlushDone
<1>1. Call.op = "seek" /\ Call.to = to BY DEF Seek
<1> QED BY <1>1 DEF Copy, Copies, Direct, Directs, FlushDone

(* A seek empties the buffer and moves. *)
LEMMA SeekFacts ==
  ASSUME FileTypes, Total >= DurationEnd, SeekDone
  PROVE  /\ calls' = Tail(calls) /\ buffer = << >> /\ buffer' = << >>
         /\ disk' = disk /\ maximum_end_us' = maximum_end_us
         /\ written' = written
         /\ Total = Len(disk) /\ HeaderStored'
<1>1. /\ calls' = Tail(calls) /\ buffer = << >> /\ buffer' = << >>
      /\ disk' = disk /\ maximum_end_us' = maximum_end_us
      /\ written' = written
  BY Zenon DEF SeekDone, clientVars
<1>2. Total = Len(disk) BY <1>1 DEF Total, FileTypes
<1>3. HeaderStored' BY <1>1, <1>2, Zenon DEF HeaderStored, DurationEnd
<1> QED BY <1>1, <1>2, <1>3

(* A drain before a seek lets the file grow. *)
LEMMA DrainFacts ==
  ASSUME Drain
  PROVE  /\ buffer # << >> /\ calls' = calls /\ end' = end
         /\ maximum_end_us' = maximum_end_us /\ written' = written
         /\ \A n \in 3 .. 6 : Left(n) => Left(n)'
<1>1. /\ buffer # << >> /\ calls' = calls /\ end' = end
      /\ maximum_end_us' = maximum_end_us /\ written' = written
  BY Zenon DEF Drain, Drains, clientVars
<1>2. FlushCalls' = FlushCalls BY <1>1, Zenon DEF FlushCalls
<1> QED BY <1>1, <1>2, Zenon DEF Left

(* The steps of write_duration: seek to the end, *)
LEMMA RenewSixth ==
  ASSUME FileTypes, Total >= DurationEnd, Io, NEW out, NEW cuts, NEW d,
         Stored(out, cuts, d),
         Left(6), position = Len(disk), Agree(out), Total = Len(out)
  PROVE  Renewed(out, cuts, d)
<1>1. Call = Seek("end") BY LeftNumbers, LeftCall, Zenon
<1>2. Call.to = "end" /\ (Drain \/ SeekDone) BY <1>1, SeekKinds, Zenon DEF Io
<1>3. CASE Drain
  <2>1. /\ Rewrites /\ position' = Len(disk') /\ Total' = Total
    BY <1>3, DrainAppends, Zenon DEF Total
  <2>2. Agree(out)' BY <1>3, DrainAgrees, Zenon
  <2>3. Left(6)' /\ written' = written BY <1>3, LeftNumbers, DrainFacts, Zenon
  <2>4. Renewing(out, d)' BY <2>1, <2>2, <2>3, Zenon DEF Renewing
  <2>5. Stored(out, cuts, d)' /\ Grows
    BY <2>1, <2>2, <2>3, GrownFile, Zenon DEF FileTypes
  <2> QED BY <2>4, <2>5, Zenon DEF Renewed
<1>4. CASE SeekDone
  <2>1. end' = Len(disk) /\ position' = Len(disk) BY <1>2, <1>4 DEF SeekDone
  <2>2. /\ calls' = Tail(calls) /\ buffer' = << >> /\ disk' = disk
        /\ maximum_end_us' = maximum_end_us /\ written' = written
        /\ Total = Len(disk) /\ HeaderStored'
    BY <1>4, SeekFacts, Zenon
  <2>3. Left(5)' BY <2>2, LeftNumbers, LeftStep, Zenon
  <2>4. Renewing(out, d)' BY <2>1, <2>2, <2>3, Zenon DEF Renewing
  <2>5. Stored(out, cuts, d)' /\ Grows BY <2>2, SameFile, Zenon
  <2> QED BY <2>4, <2>5, Zenon DEF Renewed
<1> QED BY <1>2, <1>3, <1>4, Zenon

(* seek to the Duration, *)
LEMMA RenewFifth ==
  ASSUME FileTypes, Total >= DurationEnd, Io, NEW out, NEW cuts, NEW d,
         Stored(out, cuts, d), HeaderStored, end = Len(disk),
         Len(disk) = Len(out), Left(5), buffer = << >>, position = Len(disk)
  PROVE  Renewed(out, cuts, d)
<1>1. Call = Seek("duration") BY LeftNumbers, LeftCall, Zenon
<1>2. Call.to = "duration" /\ SeekDone
  BY <1>1, SeekKinds, DrainFacts, Zenon DEF Io
<1>3. end' = end /\ position' = DurationOffset BY <1>2 DEF SeekDone
<1>4. /\ calls' = Tail(calls) /\ buffer' = << >> /\ disk' = disk
      /\ maximum_end_us' = maximum_end_us /\ written' = written
      /\ HeaderStored'
  BY <1>2, SeekFacts, Zenon
<1>5. Left(4)' BY <1>4, LeftNumbers, LeftStep, Zenon
<1>6. DurationOffset' = DurationOffset OBVIOUS
<1>7. Renewing(out, d)' BY <1>3, <1>4, <1>5, <1>6, Zenon DEF Renewing
<1>8. Stored(out, cuts, d)' /\ Grows BY <1>4, SameFile, Zenon
<1> QED BY <1>7, <1>8, Zenon DEF Renewed

(* write it into the buffer or over the file, *)
LEMMA RenewFourth ==
  ASSUME FileTypes, Timely, Io, NEW out, NEW cuts, NEW d,
         Stored(out, cuts, d), HeaderStored, end = Len(disk),
         Len(disk) = Len(out), Left(4), buffer = << >>,
         position = DurationOffset
  PROVE  \E o, x : Renewed(o, cuts, x)
<1>1. /\ Call.bytes = F64(maximum_end_us) /\ Call \in Writes
      /\ Call.op = "write_all" /\ Len(Call.bytes) = 8
      /\ Call.bytes \in Seq(Nat)
  BY DurationCall, Zenon
<1>2. Copy \/ Direct
  BY <1>1, DrainFacts DEF Io, SeekDone, FlushDone
<1>3. CASE Copy
  <2>1. /\ buffer' = buffer \o Call.bytes /\ calls' = Tail(calls)
        /\ end' = end /\ disk' = disk
        /\ position' = position /\ written' = written
        /\ maximum_end_us' = maximum_end_us
    BY <1>3, Zenon DEF Copy, clientVars
  <2>2. buffer' = Call.bytes
    <3>1. \A s \in Seq(Nat) : << >> \o s = s OBVIOUS
    <3> QED BY <1>1, <2>1, <3>1, Zenon
  <2>3. Left(3)' BY <2>1, LeftNumbers, LeftStep, Zenon
  <2>4. HeaderStored' /\ OverDuration'
    BY <1>1, <2>1, <2>2, Zenon DEF OverDuration, HeaderStored, DurationEnd
  <2>5. buffer' = F64(maximum_end_us') BY <1>1, <2>1, <2>2, Zenon
  <2>6. Renewing(out, d)' BY <2>1, <2>3, <2>4, <2>5, Zenon DEF Renewing
  <2>7. Stored(out, cuts, d)' /\ Grows BY <2>1, SameFile, Zenon
  <2> QED BY <2>6, <2>7, Zenon DEF Renewed
<1>4. CASE Direct
  <2>1. /\ Rewrites /\ disk' \in Seq(Nat) /\ calls' = Tail(calls)
        /\ Len(disk') = Len(disk) /\ buffer' = buffer
        /\ \A i \in 1 .. 8 : disk'[DurationOffset + i] = Call.bytes[i]
    BY <1>1, <1>4, DirectOver, Zenon
  <2>2. /\ end' = end /\ written' = written
        /\ maximum_end_us' = maximum_end_us
    BY <1>4, Zenon DEF Direct, clientVars
  <2>3. Left(3)' BY <2>1, <2>2, LeftNumbers, LeftStep, Zenon
  <2>4. HeaderStored' BY <2>1, Zenon DEF HeaderStored, DurationEnd
  <2>5. Lies(F64(maximum_end_us), disk', DurationOffset + 1)
    BY <1>1, <2>1, LiesOver, Zenon
  <2>6. IsWhole(written, maximum_end_us)
    BY LeftNumbers, WholeNow, Zenon
  <2>7. PICK m : m = maximum_end_us BY Zenon
  <2>8. IsWhole(written, m) /\ Lies(F64(m), disk', DurationOffset + 1)
    BY <2>5, <2>6, <2>7, Zenon
  <2>9. Renews /\ \E o : Stored(o, cuts, m)' /\ Len(disk') = Len(o)
    BY <2>1, <2>2, <2>8, RenewsRead, Zenon
  <2>10. PICK o : Stored(o, cuts, m)' /\ Len(disk') = Len(o) BY <2>9, Zenon
  <2>11. Renewing(o, m)'
    BY <2>1, <2>2, <2>3, <2>4, <2>7, <2>10, Zenon DEF Renewing
  <2> QED BY <2>9, <2>10, <2>11, Zenon DEF Renewed
<1> QED BY <1>2, <1>3, <1>4, Zenon

(* seek back, which writes it over, *)
LEMMA RenewThird ==
  ASSUME FileTypes, Timely, Io, NEW out, NEW cuts, NEW d,
         Stored(out, cuts, d), HeaderStored, end = Len(disk),
         Len(disk) = Len(out), Left(3), OverDuration,
         buffer = F64(maximum_end_us)
  PROVE  \E o, x : Renewed(o, cuts, x)
<1>1. Call = Seek("remembered") BY LeftNumbers, LeftCall, Zenon
<1>2. Len(buffer) = 8 BY Zenon DEF OverDuration
<1>3. buffer # << >>
  <2>1. Len(<< >>) # 8 OBVIOUS
  <2> QED BY <1>2, <2>1, Zenon
<1>4. Drain
  <2>1. ~SeekDone BY <1>3, Zenon DEF SeekDone
  <2> QED BY <1>1, <2>1, SeekKinds, Zenon DEF Io
<1>5. /\ Rewrites /\ disk' \in Seq(Nat) /\ buffer' = << >>
      /\ Len(disk') = Len(disk)
      /\ \A i \in 1 .. 8 : disk'[DurationOffset + i] = buffer[i]
  BY <1>4, DrainOver, Zenon
<1>6. /\ calls' = calls /\ end' = end /\ written' = written
      /\ maximum_end_us' = maximum_end_us /\ Left(3)'
  BY <1>4, DrainFacts, LeftNumbers, Zenon
<1>7. HeaderStored' BY <1>5, Zenon DEF HeaderStored, DurationEnd
<1>8. Lies(F64(maximum_end_us), disk', DurationOffset + 1)
  BY <1>2, <1>5, LiesOver, Zenon
<1>9. IsWhole(written, maximum_end_us) BY LeftNumbers, WholeNow, Zenon
<1>10. PICK m : m = maximum_end_us BY Zenon
<1>11. IsWhole(written, m) /\ Lies(F64(m), disk', DurationOffset + 1)
  BY <1>8, <1>9, <1>10, Zenon
<1>12. Renews /\ \E o : Stored(o, cuts, m)' /\ Len(disk') = Len(o)
  BY <1>5, <1>6, <1>11, RenewsRead, Zenon
<1>13. PICK o : Stored(o, cuts, m)' /\ Len(disk') = Len(o) BY <1>12, Zenon
<1>14. Renewing(o, m)'
  BY <1>5, <1>6, <1>7, <1>10, <1>13, Zenon DEF Renewing
<1> QED BY <1>12, <1>13, <1>14, Zenon DEF Renewed

(* flush and return. *)
LEMMA RenewLast ==
  ASSUME FileTypes, Timely, Io, Total >= DurationEnd, phase = "open",
         Updating, NEW out, NEW cuts, NEW d,
         Stored(out, cuts, d), HeaderStored, end = Len(disk),
         Len(disk) = Len(out), Left(3), buffer = << >>, d = maximum_end_us
  PROVE  Renewed(out, cuts, d)
<1>1. Call = Seek("remembered") BY LeftNumbers, LeftCall, Zenon
<1>2. Call.to = "remembered" /\ SeekDone
  BY <1>1, SeekKinds, DrainFacts, Zenon DEF Io
<1>3. end' = end /\ position' = end BY <1>2 DEF SeekDone
<1>4. /\ calls' = Tail(calls) /\ buffer' = << >> /\ disk' = disk
      /\ maximum_end_us' = maximum_end_us /\ written' = written
  BY <1>2, SeekFacts, Zenon
<1>5. Left(2)' BY <1>4, LeftNumbers, LeftStep, Zenon
<1>6. FileTypes' /\ (Appending' \/ Updating') BY UpdateStep, Zenon DEF Io
<1>7. ~Left(6)' /\ ~Left(5)' /\ ~Left(4)' /\ ~Left(3)'
  <2>1. Len(calls') = 2 BY <1>5, Zenon DEF Left
  <2>2. 2 # 6 /\ 2 # 5 /\ 2 # 4 /\ 2 # 3 OBVIOUS
  <2> QED BY <2>1, <2>2, Zenon DEF Left
<1>8. Appending' BY <1>6, <1>7, Zenon DEF Updating
<1>9. calls' \in Seq(Appends) /\ Len(calls') = 2 /\ calls'[1] = Flush
      /\ calls'[2] = Return(0)
  <2>1. FlushCalls' = FlushCalls BY <1>4, Zenon DEF FlushCalls
  <2>2. 1 \in 1 .. 2 /\ 2 \in 1 .. 2 /\ 6 - 2 + 1 = 5 /\ 6 - 2 + 2 = 6
    OBVIOUS
  <2>3. FlushCalls[5] = Flush /\ FlushCalls[6] = Return(0)
    BY UpdateCalls, Zenon DEF FileTypes
  <2> QED BY <1>5, <1>8, <2>1, <2>2, <2>3, Zenon DEF Left, Appending
<1>10. out \in Seq(Nat) /\ disk \in Seq(Nat) BY Zenon DEF Stored, Begins
<1>11. Due(calls', Len(out), out) BY <1>9, <1>10, FlushDue, Zenon
<1>12. Total' = Len(out) /\ Len(out) <= Len(out)
  BY <1>4, <1>10 DEF Total
<1>13. Lies(<< >>, out, Len(disk') + 1)
  <2>1. \A j \in 1 .. Len(<< >>) : FALSE OBVIOUS
  <2> QED BY <2>1, Zenon DEF Lies
<1>14. Agree(out)' BY <1>4, <1>12, <1>13, Zenon DEF Agree, Stored
<1>15. Ahead(out)' BY <1>11, <1>12, <1>14, Zenon DEF Ahead
<1>16. IsWhole(written', d)
  BY <1>4, LeftNumbers, WholeNow, Zenon
<1>17. Stored(out, cuts, d)' /\ Grows BY <1>4, SameFile, Zenon
<1> QED BY <1>4, <1>8, <1>15, <1>16, <1>17, Zenon DEF Renewed

-----------------------------------------------------------------------------
(* Every action keeps the content. *)

Done == phase = "exit" /\ result = "Ok"

(* What a step may show a reader. *)
Seen ==
  \/ written' = written /\ (Done' <=> Done) /\ (Grows \/ Renews)
  \/ \E e \in Upcoming : /\ written' = Append(written, e) /\ disk' = disk
                         /\ ~Done /\ ~Done'
  \/ /\ written' = written /\ disk' = disk /\ ~Done /\ Done'
     /\ Blocks[disk] = Views(written, Len(written))
     /\ IsWhole(written, InfoDuration[disk])

Some == \E out, cuts, d : Content(out, cuts, d)

(* Neither before nor after a step within the phases of the writer. *)
LEMMA NotDone ==
  ASSUME phase # "exit", phase' # "exit" PROVE ~Done /\ ~Done'
BY DEF Done

(* Steps of a method that appends. *)
LEMMA AppendContent ==
  ASSUME FileTypes, NEW out, NEW cuts, NEW d, Content(out, cuts, d),
         phase \in {"new", "open"}, Appending, Ahead(out), calls # << >>, Io
  PROVE  Content(out, cuts, d)' /\ Seen
<1>1. /\ Stored(out, cuts, d) /\ Timely /\ Ending(out, d)
  BY Zenon DEF Content
<1>2. /\ FileTypes' /\ Appending' /\ Rewrites /\ phase' = phase
  BY AppendStep, Zenon DEF Io
<1>3. Ahead(out)' BY AheadStep, Zenon DEF Io
<1>4. written' = written /\ result' = result BY CallsStep, Zenon
<1>5. Timely' BY <1>1, TimelyStep, Zenon
<1>6. Agree(out)' /\ Agree(out) BY <1>3, Zenon DEF Ahead
<1>7. Stored(out, cuts, d)' /\ Grows
  <2>1. disk \in Seq(Nat) BY Zenon DEF FileTypes
  <2> QED BY <1>1, <1>2, <1>4, <1>6, <2>1, GrownFile, Zenon
<1>8. phase # "exit" /\ phase # "drop" BY <1>2
<1>9. Ending(out, d)'
  <2>1. result # "Ok" BY <1>1, <1>8 DEF Ending
  <2>2. ASSUME result = "finalizing"
        PROVE  phase = "open" /\ Len(disk') = Len(out) /\ IsWhole(written', d)
    <3>1. ~Renewing(out, d) BY RenewingNotAppending, Zenon
    <3>2. phase = "open" /\ Len(disk) = Len(out) /\ IsWhole(written, d)
      BY <1>1, <2>2, <3>1, Zenon DEF Ending
    <3>3. disk' \in Seq(Nat) /\ out \in Seq(Nat) /\ Len(disk') <= Len(out)
      BY <1>6, Zenon DEF Agree, Begins
    <3>4. Len(disk') >= Len(disk) BY <1>2, Zenon DEF Rewrites
    <3>5. Len(disk') = Len(out) BY <3>2, <3>3, <3>4
    <3> QED BY <1>4, <3>2, <3>5, Zenon
  <2> QED BY <1>2, <1>4, <2>1, <2>2, Zenon DEF Ending
<1>10. Content(out, cuts, d)'
  <2>1. phase' # "drop" BY <1>2, <1>8, Zenon
  <2> QED BY <1>2, <1>3, <1>5, <1>7, <1>9, <2>1, Zenon DEF Content
<1>11. ~Done /\ ~Done' BY <1>2, <1>8, NotDone, Zenon
<1> QED BY <1>4, <1>7, <1>10, <1>11, Zenon DEF Seen

(* An update as FileInv has it. *)
LEMMA RenewingUpdates ==
  ASSUME NEW out, NEW d, Renewing(out, d) PROVE Updating
BY Zenon DEF Renewing, Updating

(* Steps of write_duration. *)
LEMMA RenewContent ==
  ASSUME FileTypes, NEW out, NEW cuts, NEW d, Content(out, cuts, d),
         phase = "open", Total >= DurationEnd, Renewing(out, d), Io
  PROVE  Some' /\ Seen
<1>0. "open" \in {"new", "open"} /\ "open" # "drop" /\ "open" # "exit"
      /\ "open" # "Ok"
  OBVIOUS
<1>1. /\ Stored(out, cuts, d) /\ Timely /\ Ending(out, d)
  BY <1>0, Zenon DEF Content
<1>2. Updating BY RenewingUpdates, Zenon
<1>3. calls # << >> BY RenewingNotAppending, Zenon
<1>4. PICK o, x : Renewed(o, cuts, x)
  <2>1. CASE Left(6) /\ position = Len(disk) /\ Agree(out) /\ Total = Len(out)
    BY <1>1, <2>1, RenewSixth, Zenon
  <2>2. CASE /\ HeaderStored /\ end = Len(disk) /\ Len(disk) = Len(out)
             /\ Left(5) /\ buffer = << >> /\ position = Len(disk)
    BY <1>1, <2>2, RenewFifth, Zenon
  <2>3. CASE /\ HeaderStored /\ end = Len(disk) /\ Len(disk) = Len(out)
             /\ Left(4) /\ buffer = << >> /\ position = DurationOffset
    BY <1>1, <2>3, RenewFourth, Zenon
  <2>4. CASE /\ HeaderStored /\ end = Len(disk) /\ Len(disk) = Len(out)
             /\ Left(3) /\ buffer = << >> /\ d = maximum_end_us
    BY <1>1, <1>2, <2>4, RenewLast, Zenon
  <2>5. CASE /\ HeaderStored /\ end = Len(disk) /\ Len(disk) = Len(out)
             /\ Left(3) /\ OverDuration /\ buffer = F64(maximum_end_us)
    BY <1>1, <2>5, RenewThird, Zenon
  <2> QED BY <2>1, <2>2, <2>3, <2>4, <2>5, Zenon DEF Renewing
<1>5. /\ Stored(o, cuts, x)' /\ (Grows \/ Renews)
      /\ \/ Renewing(o, x)'
         \/ /\ Appending' /\ Ahead(o)' /\ Len(disk') = Len(o)
            /\ IsWhole(written', x)
  BY <1>4, Zenon DEF Renewed
<1>6. written' = written /\ result' = result /\ phase' = phase
  BY <1>3, CallsStep, Zenon
<1>7. Timely' BY <1>1, <1>3, TimelyStep, Zenon
<1>8. Ending(o, x)'
  <2>1. result # "Ok" BY <1>1 DEF Ending
  <2> QED BY <1>5, <1>6, <2>1, Zenon DEF Ending
<1>9. Content(o, cuts, x)'
  <2>1. phase' # "drop" /\ phase' = "open" BY <1>0, <1>6, Zenon
  <2>2. \/ Appending' /\ Ahead(o)'
        \/ phase' = "open" /\ Renewing(o, x)'
    BY <1>5, <2>1, Zenon
  <2> QED BY <1>5, <1>7, <1>8, <2>1, <2>2, Zenon DEF Content
<1>10. ~Done /\ ~Done' BY <1>0, <1>6, NotDone, Zenon
<1> QED BY <1>5, <1>6, <1>9, <1>10, Zenon DEF Seen, Some

(* The drop writes what is left. *)
LEMMA DropContent ==
  ASSUME FileTypes, NEW out, NEW cuts, NEW d, Content(out, cuts, d),
         phase = "drop", Drain
  PROVE  Some' /\ Seen
<1>0. "drop" \notin {"new", "open"} /\ "drop" # "exit" /\ "drop" # "open"
  OBVIOUS
<1>1. Stored(out, cuts, d) /\ Leaving(out) /\ Ending(out, d)
  BY Zenon DEF Content
<1>2. buffer # << >> /\ written' = written BY DrainFacts, Zenon
<1>3. phase' = phase /\ result' = result BY Zenon DEF Drain, clientVars
<1>4. result # "Ok" /\ result # "finalizing"
  BY <1>0, <1>1, <1>2, Zenon DEF Ending
<1>5. \A o, x : Ending(o, x)' BY <1>3, <1>4, Zenon DEF Ending
<1>6. ~Done /\ ~Done' BY <1>0, <1>3, NotDone, Zenon
<1>7. CASE position = Len(disk) /\ Agree(out)
  <2>1. Agree(out)' BY <1>7, DrainAgrees, Zenon
  <2>2. Rewrites /\ position' = Len(disk') BY <1>7, DrainAppends, Zenon
  <2>3. disk \in Seq(Nat) BY Zenon DEF FileTypes
  <2>4. Stored(out, cuts, d)' /\ Grows
    BY <1>1, <1>2, <2>1, <2>2, <2>3, GrownFile, Zenon
  <2>5. Leaving(out)' BY <2>1, <2>2, Zenon DEF Leaving
  <2>6. Content(out, cuts, d)'
    BY <1>0, <1>3, <1>5, <2>4, <2>5, Zenon DEF Content
  <2> QED BY <1>2, <1>6, <2>4, <2>6, Zenon DEF Seen, Some
<1>8. CASE /\ OverDuration /\ Len(disk) = Len(out)
           /\ \E m : IsWhole(written, m) /\ buffer = F64(m)
  <2>1. PICK m : IsWhole(written, m) /\ buffer = F64(m) BY <1>8, Zenon
  <2>2. /\ Rewrites /\ disk' \in Seq(Nat) /\ buffer' = << >>
        /\ Len(disk') = Len(disk)
        /\ \A i \in 1 .. 8 : disk'[DurationOffset + i] = buffer[i]
    BY <1>8, DrainOver, Zenon
  <2>3. Len(buffer) = 8 BY <1>8, Zenon DEF OverDuration
  <2>4. Lies(F64(m), disk', DurationOffset + 1)
    BY <2>1, <2>2, <2>3, LiesOver, Zenon
  <2>5. Renews /\ \E o : Stored(o, cuts, m)' /\ Len(disk') = Len(o)
    BY <1>1, <1>2, <1>8, <2>1, <2>2, <2>4, RenewsRead, Zenon
  <2>6. PICK o : Stored(o, cuts, m)' BY <2>5, Zenon
  <2>7. Leaving(o)' BY <2>2, Zenon DEF Leaving
  <2>8. Content(o, cuts, m)'
    BY <1>0, <1>3, <1>5, <2>6, <2>7, Zenon DEF Content
  <2> QED BY <1>2, <1>6, <2>5, <2>8, Zenon DEF Seen, Some
<1> QED BY <1>1, <1>2, <1>7, <1>8, Zenon DEF Leaving

(* Every call on the file. *)
LEMMA IoContent ==
  ASSUME FileInv, NEW out, NEW cuts, NEW d, Content(out, cuts, d), Io
  PROVE  Some' /\ Seen
<1>1. FileTypes /\ PhaseNew /\ PhaseOpen /\ PhaseDrop /\ PhaseExit
  BY Zenon DEF FileInv
<1>2. phase \in {"new", "open", "drop", "exit"} BY <1>1, Zenon DEF FileTypes
<1>3. calls = << >> => phase = "drop" /\ Drain
  BY Zenon DEF Io, Copy, Copies, Direct, Directs, SeekDone, FlushDone, Drain,
               Drains
<1>4. CASE phase = "drop"
  <2>1. Drain BY <1>1, <1>3, <1>4, Zenon DEF PhaseDrop
  <2> QED BY <1>1, <1>4, <2>1, DropContent, Zenon
<1>5. phase # "exit"
  <2>1. "exit" # "drop" OBVIOUS
  <2> QED BY <1>1, <1>3, <2>1, Zenon DEF PhaseExit
<1>6. CASE phase # "drop"
  <2>1. phase \in {"new", "open"} /\ calls # << >> BY <1>2, <1>3, <1>5, <1>6
  <2>2. \/ Appending /\ Ahead(out)
        \/ phase = "open" /\ Renewing(out, d)
    BY <2>1, Zenon DEF Content
  <2>3. CASE Appending /\ Ahead(out)
    BY <1>1, <2>1, <2>3, AppendContent, Zenon DEF Some
  <2>4. CASE phase = "open" /\ Renewing(out, d)
    <3>1. Total >= DurationEnd BY <1>1, <2>4, Zenon DEF PhaseOpen
    <3> QED BY <1>1, <2>4, <3>1, RenewContent, Zenon
  <2> QED BY <2>2, <2>3, <2>4
<1> QED BY <1>4, <1>6

(* Between two methods all that was written is in the file or the buffer. *)
LEMMA IdleContent ==
  ASSUME FileTypes, NEW out, NEW cuts, NEW d, Content(out, cuts, d), Idle
  PROVE  /\ phase = "open" /\ calls = << >> /\ Stored(out, cuts, d)
         /\ Ending(out, d) /\ Appending /\ position = Len(disk)
         /\ Agree(out) /\ Total = Len(out) /\ ~Renewing(out, d)
         /\ IsWhole(written, maximum_end_us)
<1>1. phase = "open" /\ calls = << >> BY Zenon DEF Idle
<1>2. phase \in {"new", "open"} BY <1>1
<1>3. /\ Stored(out, cuts, d) /\ Ending(out, d) /\ Timely
      /\ \/ Appending /\ Ahead(out)
         \/ phase = "open" /\ Renewing(out, d)
  BY <1>2, Zenon DEF Content
<1>4. ~Renewing(out, d) BY <1>1, RenewingNotAppending, Zenon
<1>5. Appending /\ Ahead(out) BY <1>3, <1>4, Zenon
<1>6. Agree(out) /\ Due(<< >>, Total, out) BY <1>1, <1>5, Zenon DEF Ahead
<1>7. Total = Len(out) BY <1>6, DueEnd, Zenon
<1> QED BY <1>1, <1>3, <1>4, <1>5, <1>6, <1>7, Zenon DEF Appending, Timely

(* write_video, write_audio begin: out grows by its cluster. *)
LEMMA EventContent ==
  ASSUME FileTypes, NEW out, NEW cuts, NEW d, Content(out, cuts, d),
         WriteEvent
  PROVE  Some' /\ Seen
<1>1. PICK e \in Upcoming :
        /\ Idle /\ calls' = EventCalls(e) /\ result = "none"
        /\ written' = Append(written, e)
        /\ UNCHANGED << phase, fileVars, maximum_end_us, flushes, result >>
  BY Zenon DEF WriteEvent
<1>2. /\ phase = "open" /\ Stored(out, cuts, d) /\ position = Len(disk)
      /\ Agree(out) /\ Total = Len(out) /\ IsWhole(written, maximum_end_us)
  BY <1>1, IdleContent, Zenon
<1>3. /\ disk' = disk /\ buffer' = buffer /\ position' = position
      /\ phase' = phase /\ result' = result
      /\ maximum_end_us' = maximum_end_us
  BY <1>1 DEF fileVars
<1>4. written \in Seq(Events) /\ disk \in Seq(Nat) /\ buffer \in Seq(Nat)
  BY Zenon DEF FileTypes
<1>5. /\ e \in Events /\ EventCalls(e) \in Seq(Appends) /\ Sound(e)
  BY <1>4, EventAppends, EventSound, Zenon
<1>6. ClusterOf(e) \in Seq(Nat) BY <1>5, SoundCluster, Zenon
<1>7. /\ Laid(out, cuts, d, written) /\ Begins(disk, out)
      /\ d = 0 \/ HeaderEnd <= Len(disk)
  BY <1>2, Zenon DEF Stored
<1> DEFINE g == out \o ClusterOf(e)
<1>8. PICK c : Laid(g, c, d, Append(written, e))
  BY <1>4, <1>5, <1>7, LaidFurther, Zenon
<1>9. Begins(disk, g) BY <1>6, <1>7, BeginsFurther, Zenon
<1>10. Stored(g, c, d)' BY <1>1, <1>3, <1>7, <1>8, <1>9, Zenon DEF Stored
<1>11. out \in Seq(Nat) BY <1>7, Zenon DEF Begins
<1>12. Due(EventCalls(e), Len(out), g) BY <1>5, <1>11, EventDue, Zenon
<1>13. Lies(buffer, g, Len(disk) + 1)
  <2>1. Lies(buffer, out, Len(disk) + 1) BY <1>2, Zenon DEF Agree
  <2>2. PICK a \in Nat, b \in Nat, l \in Nat :
          a = Len(disk) /\ b = Len(buffer) /\ l = Len(out)
    <3>1. Len(disk) \in Nat /\ Len(buffer) \in Nat /\ Len(out) \in Nat
      BY <1>4, <1>11
    <3> QED BY <3>1, Zenon
  <2>3. a + b = l BY <1>2, <2>2, Zenon DEF Total
  <2>4. a + 1 + b - 1 <= l /\ a + 1 \in Nat \ {0} BY <2>3
  <2> QED BY <1>4, <1>6, <1>11, <2>1, <2>2, <2>4, LiesFurther, Zenon
<1>14. Total <= Len(g)
  <2>1. Len(g) = Len(out) + Len(ClusterOf(e)) /\ g \in Seq(Nat)
    BY <1>6, <1>11, JoinIs, Zenon
  <2>2. Len(out) \in Nat /\ Len(ClusterOf(e)) \in Nat BY <1>6, <1>11
  <2> HIDE DEF g
  <2>3. Len(out) <= Len(out) + Len(ClusterOf(e)) BY <2>2
  <2> QED BY <1>2, <2>1, <2>3, Zenon
<1>15. Total' = Total BY <1>3, Zenon DEF Total
<1> HIDE DEF g
<1>16. Agree(g)' BY <1>3, <1>9, <1>13, <1>14, <1>15, Zenon DEF Agree
<1>17. Ahead(g)' BY <1>1, <1>2, <1>12, <1>15, <1>16, Zenon DEF Ahead
<1>18. Appending' BY <1>1, <1>2, <1>3, <1>5, Zenon DEF Appending
<1>19. Timely'
  <2>1. /\ Len(calls') = 4 /\ calls'[1] = WriteAll(WriteId(ClusterId))
        /\ calls'[2] = WriteAll(WriteSize(Len(PayloadOf(e))))
        /\ calls'[3] = WriteAll(PayloadOf(e)) /\ calls'[4] = Return(EndOf(e))
    BY <1>1, EventCallsAre, Zenon
  <2>2. \A b : WriteAll(b).op # "return" BY DEF WriteAll
  <2>3. \A i \in 1 .. 4 - 1 : i = 1 \/ i = 2 \/ i = 3 OBVIOUS
  <2>4. \A i \in 1 .. 4 - 1 : calls'[i].op # "return"
    BY <2>1, <2>2, <2>3, Zenon
  <2>5. IsWhole(written', Later(EndOf(e), maximum_end_us'))
    BY <1>1, <1>2, <1>3, <1>4, <1>5, WholeFurther, Zenon
  <2>6. 4 \in Nat \ {0} OBVIOUS
  <2> QED BY <2>1, <2>4, <2>5, <2>6, TimelyCalls, Zenon
<1>20. Ending(g, d)'
  <2>1. "none" # "Ok" /\ "none" # "finalizing" OBVIOUS
  <2> QED BY <1>1, <1>3, <2>1, Zenon DEF Ending
<1>21. phase' # "drop" /\ phase # "exit" /\ phase' # "exit"
  BY <1>2, <1>3
<1>22. Content(g, c, d)'
  BY <1>10, <1>17, <1>18, <1>19, <1>20, <1>21, Zenon DEF Content
<1>23. ~Done /\ ~Done' BY <1>21, NotDone, Zenon
<1> QED BY <1>1, <1>3, <1>22, <1>23, Zenon DEF Seen, Some

(* flush begins: all is there when it comes to the Duration. *)
LEMMA FlushContent ==
  ASSUME FileTypes, NEW out, NEW cuts, NEW d, Content(out, cuts, d),
         PeriodicFlush \/ FinalFlush
  PROVE  Some' /\ Seen
<1>1. /\ Idle /\ calls' = FlushCalls
      /\ UNCHANGED << phase, fileVars, maximum_end_us, written >>
      /\ (result' = result /\ result = "none") \/ result' = "finalizing"
  BY Zenon DEF PeriodicFlush, FinalFlush
<1>2. /\ phase = "open" /\ Stored(out, cuts, d) /\ position = Len(disk)
      /\ Agree(out) /\ Total = Len(out) /\ IsWhole(written, maximum_end_us)
  BY <1>1, IdleContent, Zenon
<1>3. /\ disk' = disk /\ buffer' = buffer /\ position' = position
      /\ phase' = phase /\ maximum_end_us' = maximum_end_us
      /\ written' = written
  BY <1>1 DEF fileVars
<1>4. maximum_end_us \in Nat BY Zenon DEF FileTypes
<1>5. /\ Len(FlushCalls) = 6
      /\ FlushCalls[1] = Seek("end") /\ FlushCalls[2] = Seek("duration")
      /\ FlushCalls[3] \in Writes /\ FlushCalls[4] = Seek("remembered")
      /\ FlushCalls[5] = Flush /\ FlushCalls[6] = Return(0)
  BY <1>4, UpdateCalls, Zenon
<1>6. Left(6)'
  <2>1. FlushCalls' = FlushCalls BY <1>3, Zenon DEF FlushCalls
  <2>2. \A i \in 1 .. 6 : 6 - 6 + i = i OBVIOUS
  <2> QED BY <1>1, <1>5, <2>1, <2>2, Zenon DEF Left
<1>7. Agree(out)' /\ Total' = Len(out)
  BY <1>2, <1>3, Zenon DEF Agree, Total
<1>8. Renewing(out, d)' BY <1>2, <1>3, <1>6, <1>7, Zenon DEF Renewing
<1>9. Timely'
  <2>1. \A to : Seek(to).op # "return" BY DEF Seek
  <2>2. Flush.op # "return" /\ \A w \in Writes : w.op # "return"
    BY DEF Flush, Writes
  <2>3. \A i \in 1 .. 6 - 1 : i = 1 \/ i = 2 \/ i = 3 \/ i = 4 \/ i = 5
    OBVIOUS
  <2>4. \A i \in 1 .. 6 - 1 : calls'[i].op # "return"
    BY <1>1, <1>5, <2>1, <2>2, <2>3, Zenon
  <2>5. Later(0, maximum_end_us) = maximum_end_us BY <1>4 DEF Later
  <2>6. IsWhole(written', Later(0, maximum_end_us'))
    BY <1>2, <1>3, <2>5, Zenon
  <2>7. 6 \in Nat \ {0} OBVIOUS
  <2> QED BY <1>1, <1>5, <2>4, <2>6, <2>7, TimelyCalls, Zenon
<1>10. Ending(out, d)'
  <2>1. "none" # "Ok" /\ "none" # "finalizing" /\ "finalizing" # "Ok" OBVIOUS
  <2> QED BY <1>1, <1>2, <1>3, <1>8, <2>1, Zenon DEF Ending
<1>11. Stored(out, cuts, d)' /\ Grows BY <1>2, <1>3, SameFile, Zenon
<1>12. phase' # "drop" /\ phase # "exit" /\ phase' # "exit"
  BY <1>2, <1>3
<1>13. Content(out, cuts, d)'
  BY <1>2, <1>3, <1>8, <1>9, <1>10, <1>11, <1>12, Zenon DEF Content
<1>14. ~Done /\ ~Done' BY <1>12, NotDone, Zenon
<1> QED BY <1>3, <1>11, <1>13, <1>14, Zenon DEF Seen, Some

(* The writer is left: what the drop finds is in order. *)
LEMMA LeaveContent ==
  ASSUME NEW out, NEW cuts, NEW d, Stored(out, cuts, d), phase # "exit",
         phase' = "drop", UNCHANGED << fileVars, written >>, Leaving(out),
         \/ result' = "Err"
         \/ /\ result' = "Ok" /\ buffer = << >> /\ Len(disk) = Len(out)
            /\ IsWhole(written, d)
  PROVE  Some' /\ Seen
<1>1. /\ disk' = disk /\ buffer' = buffer /\ position' = position
      /\ written' = written
  BY DEF fileVars
<1>2. Stored(out, cuts, d)' /\ Grows BY <1>1, SameFile, Zenon
<1>3. Leaving(out)'
  BY <1>1, Zenon
     DEF Leaving, Agree, Total, OverDuration, HeaderStored, DurationEnd
<1>4. "drop" # "exit" /\ "drop" \notin {"new", "open"} /\ "Err" # "Ok"
      /\ "Err" # "finalizing" /\ "Ok" # "finalizing"
      /\ "drop" \in {"drop", "exit"}
  OBVIOUS
<1>5. Ending(out, d)' BY <1>1, <1>4, Zenon DEF Ending
<1>6. Content(out, cuts, d)' BY <1>2, <1>3, <1>4, <1>5, Zenon DEF Content
<1>7. ~Done /\ ~Done' BY <1>4, NotDone, Zenon
<1> QED BY <1>1, <1>2, <1>6, <1>7, Zenon DEF Seen, Some

(* A method returns Ok. *)
LEMMA ReturnContent ==
  ASSUME FileTypes, NEW out, NEW cuts, NEW d, Content(out, cuts, d),
         RefuseEvent \/ ReturnOk \/ ReturnErr
  PROVE  Some' /\ Seen
<1>1. /\ Idle /\ phase' = "drop" /\ UNCHANGED << fileVars, written >>
      /\ result' = "Err" \/ (result = "finalizing" /\ result' = "Ok")
  BY Zenon DEF RefuseEvent, ReturnOk, ReturnErr, LeaveWith
<1>2. /\ phase = "open" /\ Stored(out, cuts, d) /\ position = Len(disk)
      /\ Agree(out) /\ Total = Len(out) /\ Ending(out, d)
      /\ ~Renewing(out, d)
  BY <1>1, IdleContent, Zenon
<1>3. Leaving(out) BY <1>2, Zenon DEF Leaving
<1>4. ASSUME result = "finalizing"
      PROVE  buffer = << >> /\ Len(disk) = Len(out) /\ IsWhole(written, d)
  <2>1. Len(disk) = Len(out) /\ IsWhole(written, d)
    BY <1>2, <1>4, Zenon DEF Ending
  <2>2. disk \in Seq(Nat) /\ buffer \in Seq(Nat) BY Zenon DEF FileTypes
  <2>3. Len(disk) + Len(buffer) = Len(disk) BY <1>2, <2>1, Zenon DEF Total
  <2>4. Len(buffer) = 0 BY <2>2, <2>3
  <2>5. buffer = << >> BY <2>2, <2>4
  <2> QED BY <2>1, <2>5
<1>5. phase # "exit" BY <1>2
<1> QED BY <1>1, <1>2, <1>3, <1>4, <1>5, LeaveContent, Zenon

(* A method fails. *)
LEMMA FailContent ==
  ASSUME FileInv, NEW out, NEW cuts, NEW d, Content(out, cuts, d), WriteFails
  PROVE  Some' /\ Seen
<1>1. FileTypes /\ PhaseExit BY Zenon DEF FileInv
<1>2. /\ phase' = "drop" /\ phase # "drop" /\ result' = "Err"
      /\ UNCHANGED << fileVars, written >> /\ (Drains \/ Directs)
  BY Zenon DEF WriteFails, LeaveWith
<1>3. calls # << >> BY <1>2, Zenon DEF Drains, Directs
<1>4. phase # "exit" BY <1>1, <1>3, Zenon DEF PhaseExit
<1>5. phase \in {"new", "open"} BY <1>1, <1>2, <1>4 DEF FileTypes
<1>6. /\ Stored(out, cuts, d) /\ Timely
      /\ \/ Appending /\ Ahead(out)
         \/ phase = "open" /\ Renewing(out, d)
  BY <1>5, Zenon DEF Content
<1>7. Leaving(out)
  <2>1. CASE Appending /\ Ahead(out)
    BY <2>1, Zenon DEF Appending, Ahead, Leaving
  <2>2. CASE Renewing(out, d)
    <3>1. CASE position = Len(disk) /\ Agree(out) BY <3>1, Zenon DEF Leaving
    <3>2. CASE buffer = << >> BY <3>2, Zenon DEF Leaving
    <3>3. CASE /\ Len(disk) = Len(out) /\ Left(3) /\ OverDuration
               /\ buffer = F64(maximum_end_us)
      <4>1. IsWhole(written, maximum_end_us)
        BY <1>1, <1>6, <3>3, LeftNumbers, WholeNow, Zenon
      <4> QED BY <3>3, <4>1, Zenon DEF Leaving
    <3> QED BY <2>2, <3>1, <3>2, <3>3, Zenon DEF Renewing
  <2> QED BY <1>6, <2>1, <2>2, Zenon
<1> QED BY <1>2, <1>4, <1>6, <1>7, LeaveContent, Zenon

(* A method returns, well or not. *)
LEMMA MethodContent ==
  ASSUME FileInv, NEW out, NEW cuts, NEW d, Content(out, cuts, d),
         MethodReturns
  PROVE  Some' /\ Seen
<1>1. FileTypes /\ PhaseDrop /\ PhaseExit BY Zenon DEF FileInv
<1>2. /\ calls # << >> /\ Call.op = "return" /\ calls' = << >>
      /\ phase' = "open" /\ UNCHANGED << fileVars, written, result >>
  BY Zenon DEF MethodReturns
<1>3. /\ disk' = disk /\ buffer' = buffer /\ position' = position
      /\ written' = written /\ result' = result
  BY <1>2 DEF fileVars
<1>4. phase # "drop" /\ phase # "exit"
  BY <1>1, <1>2, Zenon DEF PhaseDrop, PhaseExit
<1>5. phase \in {"new", "open"} BY <1>1, <1>4 DEF FileTypes
<1>6. /\ Stored(out, cuts, d) /\ Timely /\ Ending(out, d)
      /\ \/ Appending /\ Ahead(out)
         \/ phase = "open" /\ Renewing(out, d)
  BY <1>5, Zenon DEF Content
<1>7. ~Renewing(out, d) BY <1>1, <1>2, RenewingNotAppending, Zenon
<1>8. Appending /\ Ahead(out) BY <1>6, <1>7, Zenon
<1>9. Timely' /\ Len(calls) = 1 BY <1>1, <1>6, TimelyReturn, Zenon
<1>10. calls \in Seq(Appends) BY <1>8, Zenon DEF Appending
<1>11. Call = calls[1] /\ Call \in Appends /\ Tail(calls) = << >>
  <2>1. Call = calls[1] /\ Call \in Appends BY <1>2, <1>10, FirstCall, Zenon
  <2>2. Tail(calls) \in Seq(Appends) /\ Len(Tail(calls)) = 0
    BY <1>2, <1>9, <1>10
  <2>3. \A s \in Seq(Appends) : Len(s) = 0 => s = << >> OBVIOUS
  <2> QED BY <2>1, <2>2, <2>3, Zenon
<1>12. SizeOf(Call) = 0
  <2>1. Call.op # "write_all" BY <1>2
  <2> QED BY <1>11, <2>1, AppendsAre, Zenon
<1>13. Agree(out) /\ Due(calls, Total, out) /\ out \in Seq(Nat)
  BY <1>8, Zenon DEF Ahead, Agree, Begins
<1>14. Due(<< >>, Total + 0, out) BY <1>2, <1>10, <1>11, <1>12, <1>13, DueFirst, Zenon
<1>15. Total + 0 = Total BY <1>1 DEF Total, FileTypes
<1>16. Total' = Total BY <1>3, Zenon DEF Total
<1>17. Agree(out)' BY <1>3, <1>13, <1>16, Zenon DEF Agree
<1>18. Ahead(out)' BY <1>2, <1>14, <1>15, <1>16, <1>17, Zenon DEF Ahead
<1>19. Appending'
  <2>1. << >> \in Seq(Appends) OBVIOUS
  <2> QED BY <1>2, <1>3, <1>8, <2>1, Zenon DEF Appending
<1>20. Stored(out, cuts, d)' /\ Grows BY <1>3, <1>6, SameFile, Zenon
<1>21. "open" # "drop" /\ "open" # "exit" /\ "open" \in {"new", "open"}
  OBVIOUS
<1>22. Ending(out, d)'
  <2>1. result # "Ok" BY <1>4, <1>6 DEF Ending
  <2>2. result = "finalizing" => Len(disk) = Len(out) /\ IsWhole(written, d)
    BY <1>6, <1>7, Zenon DEF Ending
  <2> QED BY <1>2, <1>3, <2>1, <2>2, Zenon DEF Ending
<1>23. Content(out, cuts, d)'
  BY <1>2, <1>9, <1>18, <1>19, <1>20, <1>21, <1>22, Zenon DEF Content
<1>24. ~Done /\ ~Done' BY <1>2, <1>4, <1>21, NotDone, Zenon
<1> QED BY <1>3, <1>20, <1>23, <1>24, Zenon DEF Seen, Some

(* The end of the program: a good one completes the recording. *)
LEMMA ExitContent ==
  ASSUME NEW out, NEW cuts, NEW d, Content(out, cuts, d), Dropped \/ Kill
  PROVE  Some' /\ Seen
<1>1. /\ Stored(out, cuts, d) /\ Ending(out, d) BY Zenon DEF Content
<1>2. /\ phase # "exit" /\ phase' = "exit" /\ disk' = disk
      /\ written' = written
      /\ \/ result' = "killed"
         \/ phase = "drop" /\ result' = result /\ buffer' = buffer
  <2>1. "drop" # "exit" OBVIOUS
  <2>2. CASE Dropped BY <2>1, <2>2, Zenon DEF Dropped, fileVars, clientVars
  <2>3. CASE Kill BY <2>3, Zenon DEF Kill
  <2> QED BY <2>2, <2>3
<1>3. Stored(out, cuts, d)' /\ Grows BY <1>1, <1>2, SameFile, Zenon
<1>4. /\ "exit" \notin {"new", "open"} /\ "exit" # "drop"
      /\ "exit" \in {"drop", "exit"} /\ "drop" # "open"
      /\ "killed" # "Ok" /\ "killed" # "finalizing"
  OBVIOUS
<1>5. ~Done BY <1>2, Zenon DEF Done
<1>6. Ending(out, d)'
  BY <1>1, <1>2, <1>4, Zenon DEF Ending
<1>7. Content(out, cuts, d)' BY <1>2, <1>3, <1>4, <1>6, Zenon DEF Content
<1>8. CASE Done'
  <2>1. result = "Ok" BY <1>2, <1>4, <1>8, Zenon DEF Done
  <2>2. Len(disk) = Len(out) /\ IsWhole(written, d)
    BY <1>1, <2>1, Zenon DEF Ending
  <2>3. Reads(disk, d, written, Len(written))
    BY <1>1, <2>2, AllRead, Zenon DEF Stored
  <2>4. /\ Blocks[disk] = Views(written, Len(written))
        /\ IsWhole(written, InfoDuration[disk])
    BY <2>2, <2>3, Zenon DEF Reads
  <2> QED BY <1>2, <1>5, <1>7, <1>8, <2>4, Zenon DEF Seen, Some
<1>9. CASE ~Done' BY <1>2, <1>3, <1>5, <1>7, <1>9, Zenon DEF Seen, Some
<1> QED BY <1>8, <1>9

(* A step that changes nothing. *)
LEMMA StillContent ==
  ASSUME NEW out, NEW cuts, NEW d, Content(out, cuts, d), UNCHANGED vars
  PROVE  Some' /\ Seen
<1>1. /\ phase' = phase /\ calls' = calls /\ end' = end /\ buffer' = buffer
      /\ disk' = disk /\ position' = position
      /\ maximum_end_us' = maximum_end_us /\ written' = written
      /\ result' = result
  BY DEF vars
<1>2. Stored(out, cuts, d) BY Zenon DEF Content
<1>3. Stored(out, cuts, d)' /\ Grows BY <1>1, <1>2, SameFile, Zenon
<1>4. FlushCalls' = FlushCalls BY <1>1, Zenon DEF FlushCalls
<1>5. \A n : Left(n)' <=> Left(n) BY <1>1, <1>4, Zenon DEF Left
<1>6. /\ Total' = Total /\ (Appending' <=> Appending)
      /\ (HeaderStored' <=> HeaderStored) /\ (OverDuration' <=> OverDuration)
      /\ (Timely' <=> Timely) /\ (Done' <=> Done)
  BY <1>1, Zenon
     DEF Total, Appending, HeaderStored, OverDuration, DurationEnd, Timely,
         Done
<1>7. (Agree(out)' <=> Agree(out)) /\ (Ahead(out)' <=> Ahead(out))
  BY <1>1, <1>6, Zenon DEF Agree, Ahead
<1>8. Renewing(out, d)' <=> Renewing(out, d)
  BY <1>1, <1>5, <1>6, <1>7, Zenon DEF Renewing
<1>9. Leaving(out)' <=> Leaving(out) BY <1>1, <1>6, <1>7, Zenon DEF Leaving
<1>10. Ending(out, d)' <=> Ending(out, d) BY <1>1, <1>8, Zenon DEF Ending
<1>11. Content(out, cuts, d)'
  BY <1>1, <1>3, <1>6, <1>7, <1>8, <1>9, <1>10, Zenon DEF Content
<1> QED BY <1>1, <1>3, <1>6, <1>11, Zenon DEF Seen, Some

(* Every step keeps the content, and shows a reader what it may. *)
LEMMA ContentStep ==
  ASSUME FileInv, Some, [Next]_vars PROVE Some' /\ Seen
<1>1. PICK out, cuts, d : Content(out, cuts, d) BY Zenon DEF Some
<1>2. FileTypes BY Zenon DEF FileInv
<1>3. CASE WriteEvent BY <1>1, <1>2, <1>3, EventContent, Zenon
<1>4. CASE PeriodicFlush \/ FinalFlush
  BY <1>1, <1>2, <1>4, FlushContent, Zenon
<1>5. CASE RefuseEvent \/ ReturnOk \/ ReturnErr
  BY <1>1, <1>2, <1>5, ReturnContent, Zenon
<1>6. CASE WriteFails BY <1>1, <1>6, FailContent, Zenon
<1>7. CASE MethodReturns BY <1>1, <1>7, MethodContent, Zenon
<1>8. CASE Dropped \/ Kill BY <1>1, <1>8, ExitContent, Zenon
<1>9. CASE Io BY <1>1, <1>9, IoContent, Zenon
<1>10. CASE UNCHANGED vars BY <1>1, <1>10, StillContent, Zenon
<1>11. CASE Finished BY <1>10, <1>11, Zenon DEF Finished
<1>12. CASE Client BY <1>3, <1>4, <1>5, <1>12, Zenon DEF Client
<1>13. CASE File BY <1>6, <1>7, <1>8, <1>9, <1>13, Zenon DEF File, Io
<1> QED BY <1>8, <1>10, <1>11, <1>12, <1>13, Zenon DEF Next

-----------------------------------------------------------------------------
(* The refinement. *)

(* At first nothing is there, and the header is to come. *)
LEMMA ContentInit == ASSUME Init PROVE Some /\ Recording!Init
<1> DEFINE out == HeaderFile  cuts == HeaderCuts
<1>1. /\ phase = "new" /\ calls = NewCalls /\ buffer = << >> /\ disk = << >>
      /\ position = 0 /\ maximum_end_us = 0 /\ written = << >>
      /\ result = "none"
  BY Zenon DEF Init
<1>2. /\ Len(<< >>) = 0 /\ << >> \in Seq(Nat) /\ 0 \in Nat
      /\ \A j \in 1 .. Len(<< >>) : FALSE
  OBVIOUS
<1>3. /\ Laid(out, cuts, 0, << >>) /\ out \in Seq(Nat)
      /\ Due(NewCalls, 0, out)
  BY HeaderFileIs, HeaderFileLaid, HeaderDue, Zenon
<1> HIDE DEF out, cuts
<1>4. 0 <= Len(out) /\ 0 + 0 = 0 BY <1>3
<1>5. Begins(disk, out) BY <1>1, <1>2, <1>3, <1>4, Zenon DEF Begins
<1>6. Stored(out, cuts, 0) BY <1>1, <1>3, <1>5, Zenon DEF Stored
<1>7. Total = 0 BY <1>1, <1>2, <1>4, Zenon DEF Total
<1>8. Lies(buffer, out, Len(disk) + 1) BY <1>1, <1>2, Zenon DEF Lies
<1>9. Ahead(out)
  BY <1>1, <1>3, <1>4, <1>5, <1>7, <1>8, Zenon DEF Ahead, Agree
<1>10. Appending
  <2>1. NewCalls \in Seq(Appends) BY NewCallsAre, Zenon
  <2> QED BY <1>1, <1>2, <2>1, Zenon DEF Appending
<1>11. IsWhole(<< >>, 0) BY <1>2, Zenon DEF IsWhole
<1>12. Timely
  <2>1. Later(0, 0) = 0 BY DEF Later
  <2>2. Return(0).op = "return" /\ Return(0).end = 0 BY DEF Return
  <2>3. \A b : WriteAll(b).op # "return" BY DEF WriteAll
  <2>4. \A to : Seek(to).op # "return" BY DEF Seek
  <2>5. /\ Len(calls) = 13 /\ calls[13] = Return(0)
    BY <1>1, NewCallsAre, Zenon
  <2>6. calls # << >>
    <3>1. 0 # 13 OBVIOUS
    <3> QED BY <1>2, <2>5, <3>1, Zenon
  <2>7. ASSUME NEW i \in 1 .. 13, i # 13 PROVE NewCalls[i].op # "return"
    <3>1. \/ i = 1 \/ i = 2 \/ i = 3 \/ i = 4 \/ i = 5 \/ i = 6 \/ i = 7
          \/ i = 8 \/ i = 9 \/ i = 10 \/ i = 11 \/ i = 12
      BY <2>7
    <3> QED BY <2>3, <2>4, <3>1, NewCallsAre, Zenon
  <2> QED BY <1>1, <1>11, <2>1, <2>2, <2>5, <2>6, <2>7, Zenon DEF Timely
<1>13. Ending(out, 0)
  <2>1. "none" # "Ok" /\ "none" # "finalizing" OBVIOUS
  <2> QED BY <1>1, <2>1, Zenon DEF Ending
<1>14. Content(out, cuts, 0)
  <2>1. phase # "drop" BY <1>1
  <2> QED BY <1>6, <1>9, <1>10, <1>12, <1>13, <2>1, Zenon DEF Content
<1>15. Blocks[disk] = << >> /\ InfoDuration[disk] = 0
  <2>1. /\ Laid(out, cuts, 0, written) /\ Len(written) = 0
        /\ ClustersLaid(out, cuts, written) /\ Len(written) \in Nat
    BY <1>1, <1>2, <1>3, Zenon DEF Laid
  <2>2. PICK n \in 0 .. Len(written) : IsCount(n, disk, cuts, written)
    BY <1>5, <2>1, CountExists, Zenon
  <2>3. n = 0 BY <2>1, <2>2
  <2>4. Reads(disk, 0, written, 0) BY <1>5, <2>1, <2>2, <2>3, FileRead, Zenon
  <2>5. Views(written, 0) = << >> BY DEF Views
  <2> QED BY <2>4, <2>5, Zenon DEF Reads
<1>16. Recording!Init
  <2>1. phase # "exit" BY <1>1
  <2> QED BY <1>1, <1>15, <2>1 DEF Recording!Init
<1> QED BY <1>14, <1>16, Zenon DEF Some

(* What the contract lets a reader find. *)
LEMMA PrefixIs == \A n : Recording!Prefix(n) = Views(written, n)
BY Zenon DEF Recording!Prefix, Views, ViewOf, BlockView

LEMMA ViewsLength ==
  ASSUME NEW n \in Nat, NEW events PROVE Len(Views(events, n)) = n
BY DEF Views

(* The events that come are entries of the contract. *)
LEMMA UpcomingIsEntry ==
  ASSUME written \in Seq(Events), NEW e \in Upcoming
  PROVE  e \in UNION {ToSet(c) : c \in Captures}
<1>1. PICK c \in Captures :
        IsStrictPrefix(written, c) /\ e = c[Len(written) + 1]
  BY Zenon DEF Upcoming
<1>2. c \in Seq(Events) BY WriterAssumption, SMT
<1>3. Len(written) + 1 \in DOMAIN c
  <2>1. /\ Len(written) <= Len(c) /\ written # c
        /\ SubSeq(written, 1, Len(written)) = SubSeq(c, 1, Len(written))
    BY <1>1, Zenon DEF IsStrictPrefix, IsPrefix
  <2>2. \A s \in Seq(Events) : SubSeq(s, 1, Len(s)) = s OBVIOUS
  <2>3. Len(written) # Len(c) BY <1>2, <2>1, <2>2, Zenon
  <2> QED BY <1>2, <2>1, <2>3
<1>4. e \in ToSet(c) BY <1>1, <1>3, Zenon DEF ToSet
<1> QED BY <1>4, Zenon

(* What a step shows a reader is a step of the contract. *)
LEMMA SeenIsAllowed ==
  ASSUME FileTypes, Seen PROVE [Recording!Next]_(Recording!vars)
<1>1. written \in Seq(Events) /\ Len(written) \in Nat BY DEF FileTypes
<1>2. CASE written' = written /\ (Done' <=> Done) /\ Grows
  <2>9. PICK n \in 0 .. Len(written) : \E mm \in n .. Len(written) :
          /\ Blocks[disk] = Views(written, n)
          /\ Blocks[disk'] = Views(written, mm)
    BY <1>2, Zenon DEF Grows
  <2>1. PICK m \in n .. Len(written) :
          /\ Blocks[disk] = Views(written, n)
          /\ Blocks[disk'] = Views(written, m)
    BY <2>9, Zenon
  <2>2. InfoDuration[disk'] = InfoDuration[disk] BY <1>2, Zenon DEF Grows
  <2>3. (phase = "exit" /\ result = "Ok")' = (phase = "exit" /\ result = "Ok")
    BY <1>2, SMT DEF Done
  <2>4. CASE n = m
    <3>1. Blocks[disk'] = Blocks[disk] BY <2>1, <2>4, Zenon
    <3> QED BY <1>2, <2>2, <2>3, <3>1 DEF Recording!vars
  <2>5. CASE n # m
    <3>1. m \in n + 1 .. Len(written) /\ n \in Nat BY <1>1, <2>1, <2>5
    <3>2. Len(Blocks[disk]) = n BY <2>1, <3>1, ViewsLength, Zenon
    <3>3. Blocks[disk'] = Recording!Prefix(m) BY <2>1, PrefixIs, Zenon
    <3>4. Recording!Appear
      BY <1>2, <2>2, <2>3, <3>1, <3>2, <3>3, Zenon DEF Recording!Appear
    <3> QED BY <3>4, Zenon DEF Recording!Next
  <2> QED BY <2>4, <2>5
<1>3. CASE written' = written /\ (Done' <=> Done) /\ Renews
  <2>1. (phase = "exit" /\ result = "Ok")' = (phase = "exit" /\ result = "Ok")
    BY <1>3, SMT DEF Done
  <2>2. /\ Blocks[disk] = Recording!Prefix(Len(written))
        /\ Blocks[disk'] = Blocks[disk]
    BY <1>3, PrefixIs, Zenon DEF Renews
  <2>3. PICK x : x = InfoDuration[disk'] /\ IsWhole(written, x)
    BY <1>3, Zenon DEF Renews
  <2>4. InfoDuration[disk'] = Recording!WholeDuration
    BY <1>1, <2>3, WholeIs, Zenon
  <2>5. Recording!UpdateDuration
    BY <1>3, <2>1, <2>2, <2>4, Zenon DEF Recording!UpdateDuration
  <2> QED BY <2>5, Zenon DEF Recording!Next
<1>4. ASSUME NEW e \in Upcoming, written' = Append(written, e), disk' = disk,
             ~Done, ~Done'
      PROVE  [Recording!Next]_(Recording!vars)
  <2>1. e \in UNION {ToSet(c) : c \in Captures}
    BY <1>1, UpcomingIsEntry, Zenon
  <2>2. /\ ~(phase = "exit" /\ result = "Ok")
        /\ (phase = "exit" /\ result = "Ok")' = (phase = "exit" /\ result = "Ok")
    BY <1>4, SMT DEF Done
  <2>3. Recording!Record(e) BY <1>4, <2>2, Zenon DEF Recording!Record
  <2> QED BY <2>1, <2>3, Zenon DEF Recording!Next
<1>5. CASE /\ written' = written /\ disk' = disk /\ ~Done /\ Done'
           /\ Blocks[disk] = Views(written, Len(written))
           /\ IsWhole(written, InfoDuration[disk])
  <2>1. Blocks[disk] = Recording!Prefix(Len(written))
    BY <1>5, PrefixIs, Zenon
  <2>2. PICK x : x = InfoDuration[disk] /\ IsWhole(written, x)
    BY <1>5, Zenon
  <2>3. InfoDuration[disk] = Recording!WholeDuration
    BY <1>1, <2>2, WholeIs, Zenon
  <2>4. (phase = "exit" /\ result = "Ok")' = TRUE BY <1>5, SMT DEF Done
  <2>5. Recording!Complete
    BY <1>5, <2>1, <2>3, <2>4, Zenon DEF Recording!Complete
  <2> QED BY <2>5, Zenon DEF Recording!Next
<1> QED BY <1>2, <1>3, <1>4, <1>5, Zenon DEF Seen

(* RecordingSpec: new, write_video, write_audio and flush, with every      *)
(* short write, error and drop of the BufWriter between, do what the       *)
(* contract of a recording allows: a reader that opens the file at any     *)
(* moment finds the first events, never fewer than before, and a duration  *)
(* that was true.                                                          *)
THEOREM RecordingRefined == Spec => RecordingSpec
<1>1. Init => FileInv /\ Some /\ Recording!Init BY FileInit, ContentInit
<1>2. FileInv /\ Some /\ [Next]_vars => FileInv' /\ Some'
  BY FileStep, ContentStep
<1>3. FileInv /\ Some /\ [Next]_vars => [Recording!Next]_(Recording!vars)
  <2>1. FileInv => FileTypes BY Zenon DEF FileInv
  <2> QED BY <2>1, ContentStep, SeenIsAllowed, Zenon
<1> QED BY <1>1, <1>2, <1>3, PTL DEF Spec, RecordingSpec, Recording!Spec

-----------------------------------------------------------------------------
(* Pictures. *)

(* The pieces put together one after another. *)
LEMMA FlattenIs ==
  ASSUME NEW q \in Seq(Seq(Nat))
  PROVE  \E F \in [0 .. Len(q) -> Seq(Nat)] :
           /\ F[0] = << >> /\ FlattenSeq(q) = F[Len(q)]
           /\ \A n \in 1 .. Len(q) : F[n] = F[n - 1] \o q[n]
<1>1. Len(q) \in Nat /\ \A n \in 1 .. Len(q) : q[n] \in Seq(Nat) OBVIOUS
<1> DEFINE S == Seq(Nat)
           L == Len(q)
           D == 1 .. L
           Body(g, i) == IF i = 1 THEN q[i] ELSE g[i - 1] \o q[i]
           Part(m) == 1 .. m
           Solves(g, m) == /\ g \in [Part(m) -> S]
                           /\ \A i \in Part(m) : g[i] = Body(g, i)
<1>2. << >> \in S /\ \A s, t \in S : s \o t \in S OBVIOUS
<1>3. \A s \in S : << >> \o s = s OBVIOUS
<1>4. L \in Nat /\ \A n \in D : q[n] \in S BY <1>1
<1>5. L = 0 => FlattenSeq(q) = << >>
  <2>1. \A s \in Seq(Seq(Nat)) : Len(s) = 0 => s = << >> OBVIOUS
  <2> QED BY <2>1, Zenon DEF FlattenSeq
<1> HIDE DEF S, L
<1>6. \A m \in 0 .. L : \E g : Solves(g, m)
  <2> DEFINE Bad == {m \in 0 .. L : ~\E g : Solves(g, m)}
  <2> SUFFICES ASSUME Bad # {} PROVE FALSE BY Zenon
  <2>1. Bad \in SUBSET Nat BY <1>4
  <2>2. PICK m \in Bad : \A k \in Bad : ~(k < m) BY <2>1, LeastNumber
  <2>3. m \in 0 .. L /\ ~\E g : Solves(g, m) BY <2>2, Zenon
  <2>4. m # 0
    <3>1. \A i : i \notin Part(0) OBVIOUS
    <3> DEFINE g0 == [i \in Part(0) |-> << >>]
    <3>2. g0 \in [Part(0) -> S] BY <1>2, Zenon
    <3>3. Solves(g0, 0) BY <3>1, <3>2, Zenon
    <3> QED BY <2>3, <3>3, Zenon
  <2>5. m - 1 \in 0 .. L /\ m - 1 < m BY <1>4, <2>3, <2>4
  <2>6. PICK g : Solves(g, m - 1) BY <2>2, <2>5, Zenon
  <2>7. g \in [Part(m - 1) -> S] /\ \A i \in Part(m - 1) : g[i] = Body(g, i)
    BY <2>6, Zenon
  <2> DEFINE h == [i \in Part(m) |-> IF i = m THEN Body(g, m) ELSE g[i]]
  <2>8. /\ m \in Part(m)
        /\ \A i \in Part(m) : i \in D /\ (i = m \/ i \in Part(m - 1))
        /\ \A i \in Part(m - 1) : i \in Part(m) /\ i # m
        /\ \A i \in Part(m) : i # 1 => i - 1 \in Part(m - 1)
    BY <1>4, <2>3, <2>4
  <2> HIDE DEF Part
  <2>9. \A i \in Part(m) : q[i] \in S BY <1>4, <2>8, Zenon
  <2>10. \A i \in Part(m) : Body(g, i) \in S
    BY <1>2, <2>7, <2>8, <2>9, Zenon
  <2>11. \A i \in Part(m - 1) : h[i] = g[i] BY <2>8, Zenon
  <2>12. ASSUME NEW i \in Part(m) PROVE Body(h, i) = Body(g, i)
    <3> HIDE DEF h
    <3>1. i # 1 => h[i - 1] = g[i - 1] BY <2>8, <2>11, Zenon
    <3> QED BY <3>1, Zenon
  <2>13. \A i \in Part(m) : h[i] = Body(g, i) BY <2>7, <2>8, Zenon
  <2>14. h \in [Part(m) -> S]
    <3>1. \A i \in Part(m) : (IF i = m THEN Body(g, m) ELSE g[i]) \in S
      BY <2>7, <2>8, <2>10, Zenon
    <3> QED BY <3>1, Zenon
  <2> HIDE DEF h, Body
  <2>15. Solves(h, m) BY <2>12, <2>13, <2>14, Zenon
  <2> QED BY <2>3, <2>15, Zenon
<1> DEFINE f == CHOOSE g : g = [i \in D |-> Body(g, i)]
           F == [n \in 0 .. L |-> IF n = 0 THEN << >> ELSE f[n]]
<1>7. \A i \in D : f[i] \in S /\ f[i] = Body(f, i)
  <2>1. L \in 0 .. L /\ Part(L) = D BY <1>4
  <2>2. PICK g : g \in [D -> S] /\ \A i \in D : g[i] = Body(g, i)
    BY <1>6, <2>1, Zenon
  <2> HIDE DEF Body, D
  <2>3. g = [i \in D |-> Body(g, i)] BY <2>2, Zenon
  <2>4. f = [i \in D |-> Body(f, i)] BY <2>3, Zenon
  <2>5. \A i \in D : f[i] = Body(f, i) BY <2>4, Zenon
  <2> HIDE DEF f
  <2> DEFINE Bad == {i \in D : f[i] \notin S}
  <2>6. ASSUME Bad # {} PROVE FALSE
    <3>1. Bad \in SUBSET Nat BY <1>4 DEF D
    <3>2. PICK i \in Bad : \A k \in Bad : ~(k < i) BY <2>6, <3>1, LeastNumber
    <3>3. i \in D /\ f[i] \notin S BY <3>2, Zenon
    <3>4. f[i] = Body(f, i) /\ q[i] \in S BY <1>4, <2>5, <3>3, Zenon
    <3>5. i # 1 BY <3>3, <3>4, Zenon DEF Body
    <3>6. i - 1 \in D /\ i - 1 < i BY <1>4, <3>3, <3>5 DEF D
    <3>7. f[i - 1] \in S BY <3>2, <3>6, Zenon
    <3> QED BY <1>2, <3>3, <3>4, <3>5, <3>7, Zenon DEF Body
  <2> QED BY <2>5, <2>6, Zenon
<1>8. L # 0 => FlattenSeq(q) = f[L] BY Zenon DEF FlattenSeq, L
<1> HIDE DEF f
<1>9. 0 \in 0 .. L /\ L \in 0 .. L BY <1>4
<1>10. F \in [0 .. L -> S]
  <2>1. ASSUME NEW n \in 0 .. L PROVE (IF n = 0 THEN << >> ELSE f[n]) \in S
    <3>1. n # 0 => n \in D BY <1>4
    <3> QED BY <1>2, <1>7, <3>1, Zenon
  <2> QED BY <2>1, Zenon
<1>11. F[0] = << >> BY <1>9, Zenon
<1>12. FlattenSeq(q) = F[L] BY <1>5, <1>8, <1>9, Zenon
<1>13. ASSUME NEW n \in D PROVE F[n] = F[n - 1] \o q[n]
  <2>1. /\ n \in 0 .. L /\ n - 1 \in 0 .. L /\ n # 0
        /\ n = 1 <=> n - 1 = 0
    BY <1>4
  <2>2. F[n] = f[n] /\ F[n - 1] = IF n - 1 = 0 THEN << >> ELSE f[n - 1]
    BY <2>1, Zenon
  <2>3. f[n] = Body(f, n) /\ q[n] \in S BY <1>4, <1>7, Zenon
  <2> HIDE DEF F
  <2>4. CASE n = 1 BY <1>3, <2>1, <2>2, <2>3, <2>4, Zenon
  <2>5. CASE n # 1 BY <2>1, <2>2, <2>3, <2>5, Zenon
  <2> QED BY <2>4, <2>5, Zenon
<1> HIDE DEF F
<1> QED BY <1>10, <1>11, <1>12, <1>13, Zenon DEF S, L

(* Where the decoder stops, and where it goes on. *)
Stops(scan, i) == i >= Len(scan) \/ SubSeq(scan, i, i + 1) = EOI
NextByte(scan, i) == i + IF scan[i] = 255 THEN 2 ELSE 1

(* The decoder goes on to the right, so its recursion is sound. *)
LEMMA UnstuffedIs ==
  ASSUME NEW scan \in Seq(Nat), NEW k \in 1 .. Len(scan)
  PROVE  /\ Unstuffed(scan, k) \in Seq(Nat)
         /\ Stops(scan, k) => Unstuffed(scan, k) = << >>
         /\ ~Stops(scan, k) => Unstuffed(scan, k) =
              << scan[k] >> \o Unstuffed(scan, NextByte(scan, k))
<1> DEFINE N == Len(scan) + 1
           D == 1 .. N + 1
           stop == [i \in D |-> Stops(scan, i)]
           piece == [i \in D |-> << scan[i] >>]
           next == [i \in D |-> NextByte(scan, i)]
           Body(g, i) == IF stop[i] THEN << >> ELSE piece[i] \o g[next[i]]
<1>1. /\ Len(scan) \in Nat /\ N \in Nat /\ k \in D /\ << >> \in Seq(Nat)
      /\ N + 1 = Len(scan) + 2
  OBVIOUS
<1>2. \A s, t \in Seq(Nat) : s \o t \in Seq(Nat) OBVIOUS
<1>3. ASSUME NEW i \in D, ~stop[i]
      PROVE  piece[i] \in Seq(Nat) /\ next[i] \in D /\ next[i] > i
  <2>1. ~Stops(scan, i) BY <1>3
  <2>2. i < Len(scan) BY <1>1, <2>1 DEF Stops
  <2>3. scan[i] \in Nat BY <1>1, <2>2
  <2>4. \A b \in Nat : << b >> \in Seq(Nat) OBVIOUS
  <2>5. piece[i] \in Seq(Nat) BY <2>3, <2>4, Zenon
  <2>6. NextByte(scan, i) \in D /\ NextByte(scan, i) > i
    BY <1>1, <2>2 DEF NextByte
  <2>7. next[i] = NextByte(scan, i) BY Zenon
  <2> QED BY <2>5, <2>6, <2>7, Zenon
<1> HIDE DEF N
<1> DEFINE R(g) == Round(g, N, stop, piece, next)
           from == CHOOSE g : g = R(g)
<1>4. (\E g : g = R(g)) /\ \A g : g = R(g) => \A i \in D : g[i] \in Seq(Nat)
  <2> HIDE DEF stop, piece, next
  <2> QED BY <1>1, <1>2, <1>3, Rightwards, ZenonT(30)
<1>5. \A g : R(g) = [i \in D |-> IF Stops(scan, i) THEN << >>
                               ELSE << scan[i] >> \o g[NextByte(scan, i)]]
  BY Zenon DEF Round
<1>6. D = 1 .. Len(scan) + 2 BY <1>1, Zenon
<1> HIDE DEF D, R
<1>7. \A i : Unstuffed(scan, i) = from[i]
  <2>1. from = CHOOSE g : g = [i \in D |-> IF Stops(scan, i) THEN << >>
                                 ELSE << scan[i] >> \o g[NextByte(scan, i)]]
    BY <1>5, Zenon
  <2> HIDE DEF from
  <2> QED BY <1>6, <2>1, Zenon DEF Unstuffed, Stops, NextByte
<1>8. from = R(from) BY <1>4, Zenon
<1> HIDE DEF from
<1>9. from[k] \in Seq(Nat) BY <1>1, <1>4, <1>8, Zenon
<1>10. from[k] = IF Stops(scan, k) THEN << >>
                 ELSE << scan[k] >> \o from[NextByte(scan, k)]
  BY <1>1, <1>5, <1>8, Zenon
<1> QED BY <1>7, <1>9, <1>10, Zenon

(* Two sequences joined, byte by byte. *)
LEMMA JoinTwo ==
  ASSUME NEW a \in Seq(Nat), NEW b \in Seq(Nat)
  PROVE  /\ a \o b \in Seq(Nat) /\ Len(a \o b) = Len(a) + Len(b)
         /\ \A j \in 1 .. Len(a) : (a \o b)[j] = a[j]
         /\ \A j \in 1 .. Len(b) : (a \o b)[Len(a) + j] = b[j]
OBVIOUS

(* A part of a sequence, byte by byte. *)
LEMMA PartOf ==
  ASSUME NEW x \in Seq(Nat), NEW n \in Nat, NEW k \in Nat, n + k <= Len(x)
  PROVE  /\ SubSeq(x, n + 1, n + k) \in Seq(Nat)
         /\ Len(SubSeq(x, n + 1, n + k)) = k
         /\ \A i \in 1 .. k : SubSeq(x, n + 1, n + k)[i] = x[n + i]
<1>1. n + k - (n + 1) + 1 = k OBVIOUS
<1>2. ASSUME NEW i \in 1 .. k PROVE n + 1 + i - 1 = n + i OBVIOUS
<1>3. SubSeq(x, n + 1, n + k) = [i \in 1 .. k |-> x[n + i]]
  BY <1>1, <1>2
<1>4. \A i \in 1 .. k : x[n + i] \in Nat OBVIOUS
<1> DEFINE t == [i \in 1 .. k |-> x[n + i]]
<1>5. t \in Seq(Nat) /\ Len(t) = k /\ \A i \in 1 .. k : t[i] = x[n + i]
  BY <1>4
<1> QED BY <1>3, <1>5, Zenon

(* StripPadding takes a part of the record. *)
LEMMA StripType ==
  ASSUME NEW r \in Seq(Nat)
  PROVE  StripPadding(r) \in Seq(Nat)
<1> DEFINE ends == {i \in 1 .. Len(r) : r[i] # 0}
           last == IF ends = {} THEN 0
                   ELSE CHOOSE i \in ends : \A j \in ends : j <= i
<1>1. Len(r) \in Nat /\ ends \subseteq 1 .. Len(r) OBVIOUS
<1>2. ASSUME ends # {} PROVE \E i \in ends : \A j \in ends : j <= i
  <2> DEFINE back == {Len(r) - i : i \in ends}
  <2> HIDE DEF ends
  <2>1. back \in SUBSET Nat
    <3>1. \A i \in ends : Len(r) - i \in Nat BY <1>1
    <3> QED BY <3>1
  <2>5. back # {} BY <1>2, Zenon
  <2>2. PICK x \in back : \A m \in back : ~(m < x) BY <2>1, <2>5, LeastNumber
  <2>3. PICK i \in ends : x = Len(r) - i BY <2>2
  <2>4. ASSUME NEW j \in ends PROVE j <= i
    <3>1. ~(Len(r) - j < Len(r) - i) BY <2>2, <2>3
    <3> QED BY <1>1, <3>1
  <2> QED BY <2>3, <2>4, Zenon
<1>3. last \in 0 .. Len(r)
  <2> HIDE DEF ends
  <2>1. CASE ends = {} BY <1>1, <2>1
  <2>2. CASE ends # {}
    <3>1. last \in ends BY <1>2, <2>2, Zenon
    <3> HIDE DEF last
    <3> QED BY <1>1, <3>1
  <2> QED BY <2>1, <2>2
<1>4. StripPadding(r) = SubSeq(r, 1, last) BY Zenon DEF StripPadding
<1> HIDE DEF last
<1>5. SubSeq(r, 1, last) \in Seq(Nat) BY <1>1, <1>3
<1> QED BY <1>4, <1>5, Zenon

LEMMA EoiIs == EOI \in Seq(Nat) /\ Len(EOI) = 2 BY DEF EOI
LEMMA EoiBytes == EOI[1] = 255 /\ EOI[2] # 0 BY DEF EOI

(* One byte of the scan, stuffed. *)
LEMMA StuffedIs ==
  ASSUME NEW b \in Nat
  PROVE  /\ Stuffed(b) \in Seq(Nat) /\ Stuffed(b)[1] = b
         /\ b = EOI[1] => Stuffed(b)[2] = 0
         /\ \E w \in 1 .. 2 : w = Len(Stuffed(b)) /\ (w = 2 <=> b = EOI[1])
<1>1. CASE b = 255 BY <1>1, EoiBytes DEF Stuffed
<1>2. CASE b # 255 BY <1>2, EoiBytes DEF Stuffed
<1> QED BY <1>1, <1>2

LEMMA StuffedType == \A b \in Nat : Stuffed(b) \in Seq(Nat)
BY StuffedIs, Zenon

(* The rest of a sequence is its first and the rest of that. *)
LEMMA FirstOfRest ==
  ASSUME NEW s \in Seq(Nat), NEW n \in 0 .. Len(s) - 1
  PROVE  << s[n + 1] >> \o SubSeq(s, (n + 1) + 1, Len(s)) =
           SubSeq(s, n + 1, Len(s))
<1> DEFINE a == << s[n + 1] >>  t == SubSeq(s, (n + 1) + 1, Len(s))
           u == SubSeq(s, n + 1, Len(s))
<1>1. /\ a \in Seq(Nat) /\ Len(a) = 1 /\ a[1] = s[n + 1] OBVIOUS
<1>2. /\ t \in Seq(Nat) /\ Len(t) = Len(s) - (n + 1)
      /\ \A j \in 1 .. Len(s) - (n + 1) : t[j] = s[n + 1 + j]
  OBVIOUS
<1>3. /\ u \in Seq(Nat) /\ Len(u) = Len(s) - n
      /\ \A j \in 1 .. Len(s) - n : u[j] = s[n + j]
  OBVIOUS
<1> HIDE DEF a, t, u
<1>4. /\ a \o t \in Seq(Nat) /\ Len(a \o t) = Len(a) + Len(t)
      /\ \A j \in 1 .. Len(a) : (a \o t)[j] = a[j]
      /\ \A j \in 1 .. Len(t) : (a \o t)[Len(a) + j] = t[j]
  BY <1>1, <1>2, JoinTwo, Zenon
<1> DEFINE v == a \o t
<1> HIDE DEF v
<1>5. /\ v \in Seq(Nat) /\ Len(v) = Len(u) /\ v[1] = s[n + 1]
      /\ \A j \in 1 .. Len(s) - (n + 1) : v[1 + j] = t[j]
  <2>1. 1 \in 1 .. Len(a) /\ 1 + (Len(s) - (n + 1)) = Len(s) - n BY <1>1
  <2> QED BY <1>1, <1>2, <1>3, <1>4, <2>1, Zenon DEF v
<1>6. ASSUME NEW j \in 1 .. Len(u) PROVE v[j] = u[j]
  <2>1. CASE j = 1 BY <1>3, <1>5, <2>1
  <2>2. CASE j # 1
    <3>1. PICK k \in 1 .. Len(s) - (n + 1) : j = 1 + k
      <4>1. j - 1 \in 1 .. Len(s) - (n + 1) /\ j = 1 + (j - 1)
        BY <1>3, <2>2
      <4> QED BY <4>1
    <3>2. n + 1 + k = n + j BY <3>1
    <3> QED BY <1>2, <1>3, <1>5, <3>1, <3>2, Zenon
  <2> QED BY <2>1, <2>2
<1>7. v = u BY <1>3, <1>5, <1>6, SameSeq, Zenon
<1> QED BY <1>7, Zenon DEF a, t, u, v

(* Stuffing is taken out again. *)
LEMMA StuffedBack ==
  ASSUME NEW s \in Seq(Nat)
  PROVE  Unstuffed(FlattenSeq([i \in 1 .. Len(s) |-> Stuffed(s[i])]) \o EOI, 1) = s
<1> DEFINE q == [i \in 1 .. Len(s) |-> Stuffed(s[i])]
           L == Len(s)
<1>1. L \in Nat /\ \A n \in 1 .. L : s[n] \in Nat OBVIOUS
<1>2. q \in Seq(Seq(Nat)) /\ Len(q) = L /\ \A n \in 1 .. L : q[n] = Stuffed(s[n])
  <2>1. \A n \in 1 .. L : Stuffed(s[n]) \in Seq(Nat) BY <1>1, StuffedType
  <2> QED BY <1>1, <2>1
<1> HIDE DEF q
<1> HIDE DEF L
<1>15. PICK F \in [0 .. Len(q) -> Seq(Nat)] :
        /\ F[0] = << >> /\ FlattenSeq(q) = F[Len(q)]
        /\ \A n \in 1 .. Len(q) : F[n] = F[n - 1] \o q[n]
  BY <1>2, FlattenIs, Zenon
<1>3. /\ F \in [0 .. L -> Seq(Nat)] /\ F[0] = << >> /\ FlattenSeq(q) = F[L]
      /\ \A n \in 1 .. L : F[n] = F[n - 1] \o q[n]
  BY <1>2, <1>15, Zenon
<1> DEFINE P(n) == Len(F[n])
           scan == F[L] \o EOI
<1>4. \A n \in 0 .. L : F[n] \in Seq(Nat) /\ P(n) \in Nat
  <2>1. \A t \in Seq(Nat) : Len(t) \in Nat OBVIOUS
  <2>2. \A n \in 0 .. L : F[n] \in Seq(Nat) BY <1>3, Zenon
  <2> QED BY <2>1, <2>2, Zenon
<1>5. ASSUME NEW n \in 0 .. L, n # L
      PROVE  /\ n + 1 \in 1 .. L /\ s[n + 1] \in Nat
             /\ F[n + 1] = F[n] \o Stuffed(s[n + 1])
  <2>1. n + 1 \in 1 .. L /\ (n + 1) - 1 = n BY <1>1, <1>5
  <2> QED BY <1>1, <1>2, <1>3, <2>1, Zenon
<1>6. ASSUME NEW n \in 0 .. L, n # L
      PROVE  /\ P(n + 1) = P(n) + Len(Stuffed(s[n + 1]))
             /\ \A j \in 1 .. P(n) : F[n + 1][j] = F[n][j]
             /\ \A j \in 1 .. Len(Stuffed(s[n + 1])) :
                  F[n + 1][P(n) + j] = Stuffed(s[n + 1])[j]
  <2>1. F[n] \in Seq(Nat) /\ Stuffed(s[n + 1]) \in Seq(Nat)
    BY <1>4, <1>5, <1>6, StuffedIs, Zenon
  <2>2. PICK t \in Seq(Nat) : t = Stuffed(s[n + 1]) BY <2>1, Zenon
  <2>3. F[n + 1] = F[n] \o t BY <1>5, <1>6, <2>2, Zenon
  <2>4. /\ Len(F[n] \o t) = Len(F[n]) + Len(t)
        /\ \A j \in 1 .. Len(F[n]) : (F[n] \o t)[j] = F[n][j]
        /\ \A j \in 1 .. Len(t) : (F[n] \o t)[Len(F[n]) + j] = t[j]
    BY <2>1, JoinTwo, Zenon
  <2> QED BY <2>2, <2>3, <2>4, Zenon
<1> DEFINE Early(n) == /\ P(n) <= P(L)
                       /\ \A j \in 1 .. P(n) : F[L][j] = F[n][j]
<1>7. \A n \in 0 .. L : Early(n)
  <2> DEFINE Bad == {d \in 0 .. L : ~Early(L - d)}
  <2>1. ASSUME Bad # {} PROVE FALSE
    <3>1. Bad \in SUBSET Nat BY <1>1
    <3>2. PICK d \in Bad : \A k \in Bad : ~(k < d) BY <2>1, <3>1, LeastNumber
    <3>3. d \in 0 .. L /\ ~Early(L - d) BY <3>2, Zenon
    <3>4. L \in 0 .. L /\ L - 0 = L BY <1>1
    <3>5. Early(L) BY <1>4, <3>4
    <3>6. d # 0 BY <3>3, <3>4, <3>5, Zenon
    <3> DEFINE n == L - d
    <3>7. /\ n \in 0 .. L /\ n # L /\ d - 1 \in 0 .. L /\ d - 1 < d
          /\ L - (d - 1) = n + 1 /\ n + 1 \in 0 .. L
      BY <1>1, <3>3, <3>6
    <3> HIDE DEF n
    <3>8. Early(n + 1) BY <3>2, <3>7, Zenon
    <3>9. Len(Stuffed(s[n + 1])) \in Nat BY <1>5, <3>7, StuffedIs
    <3>10. PICK w \in Nat : w = Len(Stuffed(s[n + 1])) BY <3>9, Zenon
    <3>11. P(n) <= P(n + 1)
      <4>1. PICK x \in Nat : x = P(n) BY <1>4, <3>7, Zenon
      <4>2. P(n + 1) = x + w BY <1>6, <3>7, <3>10, <4>1, Zenon
      <4>3. x <= x + w OBVIOUS
      <4> QED BY <4>1, <4>2, <4>3, Zenon
    <3>12. Early(n)
      <4>1. P(n) \in Nat /\ P(n + 1) \in Nat /\ P(L) \in Nat
        BY <1>4, <3>4, <3>7, Zenon
      <4>2. P(n + 1) <= P(L) BY <3>8, Zenon
      <4> HIDE DEF P
      <4>3. \A j \in 1 .. P(n) : j \in 1 .. P(n + 1) BY <3>11, <4>1
      <4>4. P(n) <= P(L) BY <3>11, <4>1, <4>2
      <4> QED BY <1>6, <3>7, <3>8, <4>3, <4>4, Zenon
    <3> QED BY <3>3, <3>12, Zenon DEF n
  <2>2. ASSUME NEW n \in 0 .. L PROVE Early(n)
    <3>1. L - n \in 0 .. L /\ L - (L - n) = n BY <1>1
    <3> HIDE DEF Early
    <3>2. L - n \notin Bad BY <2>1, Zenon
    <3>3. Early(L - (L - n)) BY <3>1, <3>2, Zenon
    <3> QED BY <3>1, <3>3, Zenon
  <2> QED BY <2>2, Zenon
<1>8. /\ scan \in Seq(Nat) /\ Len(scan) = P(L) + 2
      /\ \A j \in 1 .. P(L) : scan[j] = F[L][j]
      /\ scan[P(L) + 1] = EOI[1] /\ scan[P(L) + 2] = EOI[2]
  <2>1. EOI \in Seq(Nat) /\ Len(EOI) = 2 BY EoiIs
  <2>2. F[L] \in Seq(Nat) BY <1>1, <1>4
  <2>3. /\ scan \in Seq(Nat) /\ Len(scan) = P(L) + Len(EOI)
        /\ \A j \in 1 .. P(L) : scan[j] = F[L][j]
        /\ \A j \in 1 .. Len(EOI) : scan[P(L) + j] = EOI[j]
    BY <2>1, <2>2, JoinTwo, Zenon
  <2>4. 1 \in 1 .. 2 /\ 2 \in 1 .. 2 OBVIOUS
  <2> HIDE DEF P, scan
  <2> QED BY <2>1, <2>3, <2>4, Zenon
<1>16. scan \in Seq(Nat) BY <1>8, Zenon
<1> HIDE DEF scan, P
<1> DEFINE Good(n) == Unstuffed(scan, P(n) + 1) = SubSeq(s, n + 1, Len(s))
<1>9. Good(L)
  <2>1. PICK p \in Nat : p = P(L) BY <1>1, <1>4
  <2>2. Len(scan) = p + 2 /\ scan[p + 1] = EOI[1] /\ scan[p + 2] = EOI[2]
    BY <1>8, <2>1, Zenon
  <2>3. SubSeq(scan, p + 1, (p + 1) + 1) = EOI 
    <3> DEFINE t == SubSeq(scan, p + 1, (p + 1) + 1)
    <3>1. /\ t \in Seq(Nat) /\ Len(t) = 2 /\ t[1] = scan[p + 1]
          /\ t[2] = scan[p + 2]
      <4>1. (p + 1) + 1 = p + 2 /\ 2 \in Nat /\ 1 \in 1 .. 2 /\ 2 \in 1 .. 2
            /\ p + 2 <= Len(scan)
        BY <2>2
      <4> HIDE DEF t
      <4>2. t = SubSeq(scan, p + 1, p + 2) BY <4>1, Zenon DEF t
      <4> QED BY <1>16, <4>1, <4>2, PartOf, Zenon
    <3>2. EOI \in Seq(Nat) /\ Len(EOI) = 2 BY EoiIs
    <3>3. \A j \in 1 .. 2 : j = 1 \/ j = 2 OBVIOUS
    <3> HIDE DEF t
    <3>4. \A j \in 1 .. 2 : t[j] = EOI[j] BY <2>2, <3>1, <3>2, <3>3, Zenon
    <3>5. t = EOI
      <4>1. Len(t) = Len(EOI) /\ \A j \in 1 .. Len(EOI) : t[j] = EOI[j]
        BY <3>1, <3>2, <3>4, Zenon
      <4> QED BY <3>1, <3>2, <4>1, SameSeq, Zenon
    <3> QED BY <3>5, Zenon DEF t
  <2>4. p + 1 \in 1 .. Len(scan) BY <2>2
  <2>5. Stops(scan, p + 1) BY <2>3, Zenon DEF Stops
  <2>6. Unstuffed(scan, p + 1) = << >> BY <1>16, <2>4, <2>5, UnstuffedIs, Zenon
  <2>7. SubSeq(s, L + 1, Len(s)) = << >> BY <1>1 DEF L
  <2> QED BY <2>1, <2>6, <2>7, Zenon
<1>10. ASSUME NEW n \in 0 .. L, n # L, Good(n + 1) PROVE Good(n)
  <2>1. n + 1 \in 0 .. L /\ L \in 0 .. L BY <1>1, <1>10
  <2>2. PICK p \in Nat, e \in Nat : p = P(n) /\ e = P(L)
    BY <1>4, <2>1, Zenon
  <2>3. PICK b \in Nat : b = s[n + 1] BY <1>5, <1>10, Zenon
  <2>4. PICK w \in 1 .. 2 : w = Len(Stuffed(b)) /\ (w = 2 <=> b = EOI[1])
    BY StuffedIs, Zenon
  <2>5. P(n + 1) = p + w BY <1>6, <1>10, <2>2, <2>3, <2>4, Zenon
  <2>6. /\ p + w <= e /\ \A j \in 1 .. p + w : F[L][j] = F[n + 1][j]
    BY <1>7, <2>1, <2>2, <2>5, Zenon
  <2>7. \A j \in 1 .. w : F[n + 1][p + j] = Stuffed(b)[j]
    BY <1>6, <1>10, <2>2, <2>3, <2>4, Zenon
  <2>8. ASSUME NEW j \in 1 .. w PROVE scan[p + j] = Stuffed(b)[j]
    <3>1. p + j \in 1 .. p + w /\ p + j \in 1 .. e
      <4>1. p + w <= e BY <2>6, Zenon
      <4> QED BY <4>1
    <3> QED BY <1>8, <2>2, <2>6, <2>7, <3>1, Zenon
  <2>9. scan[p + 1] = b
    <3>1. 1 \in 1 .. w OBVIOUS
    <3> QED BY <2>8, <3>1, StuffedIs, Zenon
  <2>10. b = EOI[1] => scan[p + 2] = 0
    <3>1. b = EOI[1] => 2 \in 1 .. w BY <2>4
    <3> QED BY <2>8, <3>1, StuffedIs, Zenon
  <2>11. Len(scan) = e + 2 BY <1>8, <2>2, Zenon
  <2>12. p + 1 \in 1 .. Len(scan) /\ ~(p + 1 >= Len(scan)) BY <2>6, <2>11
  <2>13. SubSeq(scan, p + 1, (p + 1) + 1) # EOI
    <3>1. /\ SubSeq(scan, p + 1, (p + 1) + 1)[1] = scan[p + 1]
          /\ SubSeq(scan, p + 1, (p + 1) + 1)[2] = scan[p + 2]
      BY <1>8, <2>6, <2>11
    <3> QED BY <2>9, <2>10, <3>1, EoiBytes
  <2>14. ~Stops(scan, p + 1) BY <2>12, <2>13, Zenon DEF Stops
  <2>15. NextByte(scan, p + 1) = (p + w) + 1
    <3>1. CASE b = EOI[1]
      <4>1. w = 2 /\ scan[p + 1] = 255 BY <2>4, <2>9, <3>1, EoiBytes
      <4>2. NextByte(scan, p + 1) = p + 1 + 2 BY <4>1 DEF NextByte
      <4> QED BY <4>1, <4>2
    <3>2. CASE b # EOI[1]
      <4>1. w = 1 /\ scan[p + 1] # 255 BY <2>4, <2>9, <3>2, EoiBytes
      <4>2. NextByte(scan, p + 1) = p + 1 + 1 BY <4>1 DEF NextByte
      <4> QED BY <4>1, <4>2
    <3> QED BY <3>1, <3>2
  <2>16. Unstuffed(scan, p + 1) = << b >> \o Unstuffed(scan, (p + w) + 1)
    BY <1>16, <2>9, <2>12, <2>14, <2>15, UnstuffedIs, Zenon
  <2>17. Unstuffed(scan, (p + w) + 1) = SubSeq(s, (n + 1) + 1, Len(s))
    BY <1>10, <2>5, Zenon
  <2>18. n \in 0 .. Len(s) - 1 BY <1>1, <1>10 DEF L
  <2>19. << s[n + 1] >> \o SubSeq(s, (n + 1) + 1, Len(s)) =
           SubSeq(s, n + 1, Len(s))
    BY <2>18, FirstOfRest, Zenon
  <2> QED BY <2>2, <2>3, <2>16, <2>17, <2>19, Zenon
<1>11. Good(0)
  <2> DEFINE Bad == {d \in 0 .. L : ~Good(L - d)}
  <2> HIDE DEF Good
  <2>1. ASSUME Bad # {} PROVE FALSE
    <3>1. Bad \in SUBSET Nat BY <1>1
    <3>2. PICK d \in Bad : \A k \in Bad : ~(k < d) BY <2>1, <3>1, LeastNumber
    <3>3. d \in 0 .. L /\ ~Good(L - d) BY <3>2, Zenon
    <3>4. L - 0 = L BY <1>1
    <3>5. d # 0 BY <1>9, <3>3, <3>4, Zenon
    <3> DEFINE n == L - d
    <3>6. /\ n \in 0 .. L /\ n # L /\ d - 1 \in 0 .. L /\ d - 1 < d
          /\ L - (d - 1) = n + 1
      BY <1>1, <3>3, <3>5
    <3>7. Good(n + 1) BY <3>2, <3>6, Zenon
    <3> QED BY <1>10, <3>3, <3>6, <3>7, Zenon
  <2>2. L \in 0 .. L /\ L - L = 0 BY <1>1
  <2>3. L \notin Bad BY <2>1, Zenon
  <2>4. Good(L - L) BY <2>2, <2>3, Zenon
  <2> QED BY <2>2, <2>4, Zenon
<1>12. P(0) + 1 = 1
  <2> USE DEF P
  <2>1. Len(<< >>) + 1 = 1 OBVIOUS
  <2> QED BY <1>3, <2>1, Zenon
<1>13. SubSeq(s, 0 + 1, Len(s)) = s OBVIOUS
<1>14. Unstuffed(scan, 1) = s BY <1>11, <1>12, <1>13, Zenon
<1> QED BY <1>3, <1>14, Zenon DEF scan, q

(* reconstruct_jpeg: whatever bytes a record has, a decoder of its picture *)
(* finds the scan again, to the last byte that is not padding.             *)
THEOREM EntropyBack ==
  ASSUME NEW r \in Seq(Nat)
  PROVE  EntropyOf(ReconstructJpeg(r)) = StripPadding(r)
<1> DEFINE s == StripPadding(r)
           c == FlattenSeq([i \in 1 .. Len(s) |-> Stuffed(s[i])])
           q == [i \in 1 .. Len(s) |-> Stuffed(s[i])]
           jpeg == JpegHeader \o c \o EOI
<1>1. s \in Seq(Nat) BY StripType
<1> HIDE DEF s
<1>2. c \in Seq(Nat)
  <2>6. \A t \in Seq(Nat) : Len(t) \in Nat /\ \A n \in 1 .. Len(t) : t[n] \in Nat
    OBVIOUS
  <2>1. \A n \in 1 .. Len(s) : Stuffed(s[n]) \in Seq(Nat)
    BY <1>1, <2>6, StuffedType, Zenon
  <2>7. Len(s) \in Nat BY <1>1, <2>6, Zenon
  <2>2. q \in Seq(Seq(Nat)) BY <2>1, <2>7
  <2> HIDE DEF q
  <2>3. PICK F \in [0 .. Len(q) -> Seq(Nat)] : FlattenSeq(q) = F[Len(q)]
    BY <2>2, FlattenIs, Zenon
  <2>4. Len(q) \in 0 .. Len(q) BY <2>2
  <2>5. FlattenSeq(q) \in Seq(Nat) BY <2>3, <2>4
  <2> QED BY <2>5, Zenon DEF q
<1>3. Unstuffed(c \o EOI, 1) = s BY <1>1, StuffedBack, Zenon
<1> HIDE DEF c
<1>4. EOI \in Seq(Nat) BY DEF EOI
<1>5. JpegHeader \in Seq(Nat)
  <2>1. HeaderLength - 2 \in Nat BY DEF HeaderLength
  <2> DEFINE h == [i \in 1 .. HeaderLength - 2 |-> 299]
  <2>2. h \in Seq(Nat) BY <2>1
  <2>3. << 255, 216 >> \in Seq(Nat) OBVIOUS
  <2>4. \A a, b \in Seq(Nat) : a \o b \in Seq(Nat) OBVIOUS
  <2> QED BY <2>2, <2>3, <2>4, Zenon DEF JpegHeader
<1>6. \A a, b, d \in Seq(Nat) :
        SubSeq(a \o b \o d, Len(a) + 1, Len(a \o b \o d)) = b \o d
  <2> TAKE a \in Seq(Nat), b \in Seq(Nat), d \in Seq(Nat)
  <2> DEFINE x == a \o b \o d  y == SubSeq(x, Len(a) + 1, Len(x))
             z == b \o d
  <2>1. Three(x, a, b, d) BY JoinThree, Zenon
  <2>2. x \in Seq(Nat) OBVIOUS
  <2>3. /\ z \in Seq(Nat) /\ Len(z) = Len(b) + Len(d)
        /\ \A i \in 1 .. Len(b) : z[i] = b[i]
        /\ \A i \in 1 .. Len(d) : z[Len(b) + i] = d[i]
    OBVIOUS
  <2> HIDE DEF x, z
  <2>4. /\ Len(x) = Len(a) + Len(b) + Len(d)
        /\ \A i \in 1 .. Len(b) : x[Len(a) + i] = b[i]
        /\ \A i \in 1 .. Len(d) : x[Len(a) + Len(b) + i] = d[i]
    BY <2>1, Zenon DEF Three
  <2>5. /\ y \in Seq(Nat) /\ Len(y) = Len(z)
        /\ \A i \in 1 .. Len(z) : y[i] = x[Len(a) + i]
    <3>1. PICK n \in Nat, k \in Nat : n = Len(a) /\ k = Len(z)
      <4>1. Len(a) \in Nat /\ Len(b) \in Nat /\ Len(d) \in Nat OBVIOUS
      <4> QED BY <2>3, <4>1
    <3>2. Len(x) = n + k BY <2>3, <2>4, <3>1
    <3>3. /\ SubSeq(x, n + 1, n + k) \in Seq(Nat)
          /\ Len(SubSeq(x, n + 1, n + k)) = k
          /\ \A i \in 1 .. k : SubSeq(x, n + 1, n + k)[i] = x[n + i]
      <4>1. n + k <= Len(x) BY <3>2
      <4> QED BY <2>2, <4>1, PartOf, Zenon
    <3> QED BY <3>1, <3>2, <3>3, Zenon
  <2> HIDE DEF y
  <2>6. ASSUME NEW i \in 1 .. Len(z) PROVE y[i] = z[i]
    <3>1. CASE i <= Len(b)
      <4>1. i \in 1 .. Len(b) BY <3>1
      <4> QED BY <2>3, <2>4, <2>5, <4>1, Zenon
    <3>2. CASE ~(i <= Len(b))
      <4>1. PICK j \in 1 .. Len(d) : i = Len(b) + j
        <5>1. i - Len(b) \in 1 .. Len(d) /\ i = Len(b) + (i - Len(b))
          BY <2>3, <3>2
        <5> QED BY <5>1
      <4>2. Len(a) + (Len(b) + j) = Len(a) + Len(b) + j OBVIOUS
      <4> QED BY <2>3, <2>4, <2>5, <4>1, <4>2, Zenon
    <3> QED BY <3>1, <3>2
  <2>7. y = z BY <2>3, <2>5, <2>6, SameSeq, Zenon
  <2> QED BY <2>7, Zenon DEF y, z, x
<1>7. SubSeq(jpeg, Len(JpegHeader) + 1, Len(jpeg)) = c \o EOI
  BY <1>2, <1>4, <1>5, <1>6, Zenon
<1>8. ReconstructJpeg(r) = jpeg BY Zenon DEF ReconstructJpeg, c, s
<1> HIDE DEF jpeg
<1> QED BY <1>3, <1>7, <1>8, Zenon DEF EntropyOf, s

(* A reader finds the first of the events. *)
LEMMA FirstEventsRead ==
  ASSUME Some
  PROVE  \E n \in 0 .. Len(written) : Blocks[disk] = Views(written, n)
<1>1. PICK out, cuts, d : Content(out, cuts, d) BY Zenon DEF Some
<1>2. /\ Laid(out, cuts, d, written) /\ Begins(disk, out)
      /\ d = 0 \/ HeaderEnd <= Len(disk)
  BY <1>1, Zenon DEF Content, Stored
<1>3. ClustersLaid(out, cuts, written) /\ Len(written) \in Nat
  BY <1>2, Zenon DEF Laid
<1>4. PICK n \in 0 .. Len(written) : IsCount(n, disk, cuts, written)
  BY <1>2, <1>3, CountExists, Zenon
<1>5. Reads(disk, d, written, n) BY <1>2, <1>4, FileRead, Zenon
<1> QED BY <1>4, <1>5, Zenon DEF Reads

(* Bytes are numbers. *)
LEMMA SeqWithin ==
  ASSUME NEW T, NEW S, S \subseteq T, NEW s \in Seq(S)
  PROVE  s \in Seq(T)
<1>1. \A i \in 1 .. Len(s) : s[i] \in S OBVIOUS
<1>2. Len(s) \in Nat /\ DOMAIN s = 1 .. Len(s) /\ s = [i \in 1 .. Len(s) |-> s[i]]
  OBVIOUS
<1>3. \A i \in 1 .. Len(s) : s[i] \in T BY <1>1
<1> QED BY <1>2, <1>3

(* The picture of an event is decoded as its record. *)
LEMMA EventIs ==
  ASSUME NEW e \in Events
  PROVE  /\ TrackOf(e) = VideoTrack => e.track = "video"
         /\ e.track = "video" => /\ DataOf(e) = ReconstructJpeg(e.record)
                                 /\ EntropyOf(DataOf(e)) = StripPadding(e.record)
<1>1. CASE e \in [track : {"video"}, pts_us : Nat, duration_us : Nat,
                  record : Seq(0 .. 255)]
  <2>1. e.track = "video" /\ e.record \in Seq(0 .. 255) BY <1>1
  <2>2. 0 .. 255 \subseteq Nat OBVIOUS
  <2>3. e.record \in Seq(Nat) BY <2>1, <2>2, SeqWithin, ZenonT(30)
  <2>4. DataOf(e) = ReconstructJpeg(e.record) BY <2>1, Zenon DEF DataOf
  <2>5. EntropyOf(ReconstructJpeg(e.record)) = StripPadding(e.record)
    BY <2>3, EntropyBack, Zenon
  <2> QED BY <2>1, <2>4, <2>5, Zenon
<1>2. CASE e.track = "audio"
  <2>1. e.track # "video" BY <1>2
  <2>2. TrackOf(e) # VideoTrack BY <2>1 DEF TrackOf, VideoTrack, AudioTrack
  <2> QED BY <2>1, <2>2, Zenon
<1>3. e.track = "audio" \/ e \in [track : {"video"}, pts_us : Nat,
                              duration_us : Nat, record : Seq(0 .. 255)]
  BY DEF Events
<1> QED BY <1>1, <1>2, <1>3, Zenon

(* PictureSurvives: every picture in the file, whenever it is read, is    *)
(* that of the event it was recorded for, and is decoded as the record of *)
(* it.                                                                    *)
THEOREM PicturesSurvive == Spec => []PictureSurvives
<1>1. Init => FileInv /\ Some BY FileInit, ContentInit
<1>2. FileInv /\ Some /\ [Next]_vars => FileInv' /\ Some'
  BY FileStep, ContentStep
<1>3. ASSUME FileInv, Some PROVE PictureSurvives
  <2>1. written \in Seq(Events)
    <3>1. FileTypes BY <1>3, Zenon DEF FileInv
    <3> QED BY <3>1, Zenon DEF FileTypes
  <2>2. PICK n \in 0 .. Len(written) : Blocks[disk] = Views(written, n)
    BY <1>3, FirstEventsRead, Zenon
  <2>3. Len(written) \in Nat /\ n \in Nat /\ n <= Len(written)
    BY <2>1
  <2>4. Len(Blocks[disk]) = n BY <2>2, <2>3, ViewsLength, Zenon
  <2>5. ASSUME NEW i \in 1 .. n, Blocks[disk][i].track = VideoTrack
        PROVE  /\ i <= Len(written) /\ written[i].track = "video"
               /\ EntropyOf(Blocks[disk][i].data) =
                    StripPadding(written[i].record)
    <3>1. i \in 1 .. Len(written) /\ i <= Len(written) BY <2>3
    <3>2. written[i] \in Events BY <2>1, <3>1
    <3>3. Blocks[disk][i] = ViewOf(written[i]) BY <2>2, Zenon DEF Views
    <3>4. /\ ViewOf(written[i]).track = TrackOf(written[i])
          /\ ViewOf(written[i]).data = DataOf(written[i])
      BY DEF ViewOf, BlockView
    <3>5. TrackOf(written[i]) = VideoTrack BY <2>5, <3>3, <3>4, Zenon
    <3> QED BY <3>1, <3>2, <3>3, <3>4, <3>5, EventIs, Zenon
  <2> QED BY <2>4, <2>5, Zenon DEF PictureSurvives
<1> QED BY <1>1, <1>2, <1>3, PTL DEF Spec

=============================================================================
