------------------------------ MODULE InitPlan ------------------------------
(***************************************************************************)
(* init.rs: the parser of initialization plans.  A row of the text is      *)
(* empty, for an empty line or a comment, or the sequence of its tab-      *)
(* separated fields: numbers, with NotANumber for what does not parse, and *)
(* the payload, with NotHex.                                               *)
(***************************************************************************)
EXTENDS Control

NotANumber == -1
NotHex == << -1 >>

MaxDelay == 10000000   \* microseconds

(* delay_us, bmRequestType, bRequest, wValue, wIndex, wLength. *)
Bounds == << MaxDelay, 255, 255, 65535, 65535, 64 >>

Byte == 0 .. 255
Word == 0 .. 65535
ControlIn == [op : {"ControlIn"}, value : Word, index : Word, length : 0 .. 64]
ControlOut == [op : {"ControlOut"}, value : Word, index : Word, data : Seq(Byte)]
SetAlternate == [op : {"SetInterface"}, alternate : Byte]
InitOp == ControlIn \cup ControlOut \cup SetAlternate

Refused == [op |-> "Refused"]

(* Faulty variant: the payload may be longer or shorter than wLength. *)
ParseRowAnyLength(row) ==
  IF ~ (Len(row) = 8 /\ \A f \in 1 .. 6 : row[f] \in 0 .. Bounds[f]) THEN Refused
  ELSE IF row[2] = 1 /\ row[3] = 11 /\ row[5] = 0 /\ row[6] = 0
  THEN [op |-> "SetInterface", alternate |-> row[4] % 256]
  ELSE IF row[2] = 192 /\ row[3] = 136
  THEN [op |-> "ControlIn", value |-> row[4], index |-> row[5], length |-> row[6]]
  ELSE IF row[2] = 64 /\ row[3] = 136 /\ row[7] # NotHex
  THEN [op |-> "ControlOut", value |-> row[4], index |-> row[5], data |-> row[7]]
  ELSE Refused

(* An InitOp of a row, or Refused.  A delay has no effect but time. *)
ParseRow(row) ==
  IF ~ (Len(row) = 8 /\ \A f \in 1 .. 6 : row[f] \in 0 .. Bounds[f]) THEN Refused
  ELSE IF row[2] = 1 /\ row[3] = 11 /\ row[5] = 0 /\ row[6] = 0
  THEN [op |-> "SetInterface", alternate |-> row[4] % 256]
  ELSE IF row[2] = 192 /\ row[3] = 136
  THEN [op |-> "ControlIn", value |-> row[4], index |-> row[5], length |-> row[6]]
  ELSE IF row[2] = 64 /\ row[3] = 136 /\ row[7] # NotHex /\ Len(row[7]) = row[6]
  THEN [op |-> "ControlOut", value |-> row[4], index |-> row[5], data |-> row[7]]
  ELSE Refused

(* The elements of s at these positions, in order. *)
Subsequence(s, positions) ==
  LET upTo[n \in 0 .. Len(s)] ==
        IF n = 0 THEN << >>
        ELSE IF n \in positions THEN Append(upTo[n - 1], s[n]) ELSE upTo[n - 1]
  IN  upTo[Len(s)]

(* One row that is refused refuses the plan. *)
ParseInitPlan(rows) ==
  LET kept == Subsequence(rows, {i \in 1 .. Len(rows) : rows[i] # << >>})
      operations == [i \in 1 .. Len(kept) |-> ParseRow(kept[i])]
  IN  [ok |-> \A i \in 1 .. Len(kept) : operations[i] # Refused,
       operations |-> operations]

(* Positions override_record_mode_scale_factor looks at. *)
ScaleWrites(plan) ==
  {i \in 1 .. Len(plan) : /\ plan[i].op = "ControlOut"
                          /\ plan[i].index = ScaleFactorIndex
                          /\ Len(plan[i].data) = 1}

(* Faulty variant: overrides the first such write, the reset value. *)
OverrideFirst(plan, quality) ==
  [i \in 1 .. Len(plan) |->
     IF i \in ScaleWrites(plan) /\ \A j \in ScaleWrites(plan) : j >= i
     THEN [plan[i] EXCEPT !.data = << quality >>] ELSE plan[i]]

(* override_record_mode_scale_factor: the last such write, no other. *)
Override(plan, quality) ==
  [i \in 1 .. Len(plan) |->
     IF i \in ScaleWrites(plan) /\ \A j \in ScaleWrites(plan) : j <= i
     THEN [plan[i] EXCEPT !.data = << quality >>] ELSE plan[i]]
==============================================================================
