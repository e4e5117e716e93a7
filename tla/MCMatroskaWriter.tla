-------------------------- MODULE MCMatroskaWriter --------------------------
(***************************************************************************)
(* Captures for TLC: the first picture takes every record of two bytes out *)
(* of padding, 0xff and another byte, and two longer ones, so that blocks  *)
(* and clusters have sizes on both sides of EBML's one-byte limit; times   *)
(* have one, two and three bytes and go back once; one chunk is of another *)
(* format and one of a wrong length.                                       *)
(***************************************************************************)
EXTENDS MatroskaWriter

Records ==
  {r \in UNION {[1 .. n -> {0, 7, 255}] : n \in 1 .. 2} : HasEntropy(r)}
  \cup {<< 255, 0, 7 >>, << 255, 255, 255 >>}

Video(pts_us, record) == [track |-> "video", pts_us |-> pts_us,
                          duration_us |-> 40000, record |-> record]

Audio(pts_us) == [track |-> "audio", pts_us |-> pts_us, duration_us |-> 40000,
                  format |-> AudioFormat, sample_frames |-> 2,
                  pcm |-> << 0, 0, 255, 216, 163, 129, 1, 0 >>]

OtherFormat == [Audio(0) EXCEPT !.format = "other"]
ShortChunk == [Audio(0) EXCEPT !.sample_frames = 3]

MCCaptures ==
  {<< Video(0, r), Audio(255999) >> : r \in Records}
  \cup {<< Audio(40500), Video(65536000, << 255, 255 >>), Audio(256000) >>,
        << Audio(40500), ShortChunk >>, << Audio(40500), OtherFormat >>}
=============================================================================
