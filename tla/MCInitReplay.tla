---------------------------- MODULE MCInitReplay ----------------------------
(***************************************************************************)
(* The first text has the shape of handycam-core/assets/record-mode-init.  *)
(* tsv: the alternate settings, the two scale writes, the scan command     *)
(* 0x61 that is no startup command, a command that is no scan, and startup *)
(* scans with runs of two, one and, as a plan given with --init-plan may   *)
(* have, no status reads.  The others begin like a plan and have one row   *)
(* that is not supported, or no scale factor.                              *)
(***************************************************************************)
EXTENDS InitReplay

Row(request, code, value, index, length, data) ==
  << 2000, request, code, value, index, length, data, 4198 >>
Out(index, data) == Row(64, 136, 0, index, Len(data), data)
In(index, length) == Row(192, 136, 0, index, length, NotHex)
Poll == In(832, 64)
Scale(value) == Out(124, << value >>)
Alternate(value) == Row(1, 11, value, 0, 0, NotHex)
Command(word) == Out(768, CommandBlock(word))
Scan(n) == Command(<< 0, 16 * n + 9, 16, 16 * n + 1 >>)
Special == Command(<< 0, 24, 128, 16 >>)

RecordMode == << << >>, Alternate(0), Out(39, << 255 >>), Alternate(7),
                 Alternate(5), Scan(6), Poll, Scale(16), In(45, 1), Scale(36),
                 Special, Poll, Scan(7), Poll, Poll, Scan(8), Poll, In(45, 1),
                 Scan(9), Out(0, << 24 >>) >>

Begun(row) == << Scale(16), Scan(7), Poll, row >>

MCTexts ==
  << RecordMode,
     << Scan(7), Poll, Alternate(5) >>,                  \* no scale factor
     Begun(Row(64, 136, 0, 39, 2, << 255 >>)),           \* wLength
     Begun(Row(64, 136, 0, 39, 1, NotHex)),
     Begun(Row(192, 136, 0, 832, 65, NotHex)),           \* longer than 64
     Begun(Row(192, 136, NotANumber, 832, 64, NotHex)),
     Begun(Row(1, 11, 5, 1, 0, NotHex)),                 \* not interface 0
     Begun(Row(33, 136, 0, 39, 1, << 255 >>)),           \* another request
     Begun(SubSeq(Poll, 1, 7)),                          \* seven fields
     Begun(<< >>) >>
=============================================================================
