--------------------------- MODULE ColorConversion ---------------------------
(***************************************************************************)
(* rgb_to_yuv and the chroma averages of jpeg_to_yuyv (jpeg.rs): integer   *)
(* arithmetic in i32 with an arithmetic shift, which is floor division.    *)
(***************************************************************************)
EXTENDS Integers

Byte == 0 .. 255

Clamp(x) == IF x < 0 THEN 0 ELSE IF x > 255 THEN 255 ELSE x

LumaOf(r, g, b) == 16 + ((66 * r + 129 * g + 25 * b + 128) \div 256)
BlueOf(r, g, b) == 128 + ((-38 * r - 74 * g + 112 * b + 128) \div 256)
RedOf(r, g, b)  == 128 + ((112 * r - 94 * g - 18 * b + 128) \div 256)

RgbToYuv(r, g, b) == << Clamp(LumaOf(r, g, b)), Clamp(BlueOf(r, g, b)),
                        Clamp(RedOf(r, g, b)) >>

(* (a + b).div_ceil(2), computed in u16. *)
Average(a, b) == (a + b + 1) \div 2

(* Two pixels of six bytes become four. *)
YuyvPair(p) ==
  LET left == RgbToYuv(p[1], p[2], p[3])
      right == RgbToYuv(p[4], p[5], p[6])
  IN  << left[1], Average(left[2], right[2]), right[1],
         Average(left[3], right[3]) >>
==============================================================================
