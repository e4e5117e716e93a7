-------------------------- MODULE RecordingContract --------------------------
(***************************************************************************)
(* What the Matroska writer promises of the file while it grows: a reader  *)
(* that opens it at any moment, also after the program was killed, finds   *)
(* the first events of the recording, whole and in order; never fewer than *)
(* an earlier reader found; and a duration that was true at some moment at *)
(* which everything up to it was in the file.                              *)
(***************************************************************************)
EXTENDS Integers, Sequences

CONSTANTS Entries,    \* what may be recorded, each with the end of its time
          View(_),    \* what a reader sees of an entry
          EndOf(_)

VARIABLES written,    \* entries given to the writer
          readable,   \* what a reader finds
          duration,   \* the duration it finds
          complete    \* has the recording been finished successfully?

vars == << written, readable, duration, complete >>

Prefix(n) == [i \in 1 .. n |-> View(written[i])]

Ends == {EndOf(written[i]) : i \in 1 .. Len(written)}

(* The greatest end so far, 0 if there is none. *)
WholeDuration == CHOOSE d \in Ends \cup {0} : \A e \in Ends \cup {0} : e <= d

Init == written = << >> /\ readable = << >> /\ duration = 0 /\ complete = FALSE

Record(e) == /\ ~complete
             /\ written' = Append(written, e)
             /\ UNCHANGED << readable, duration, complete >>

Appear == /\ \E n \in Len(readable) + 1 .. Len(written) : readable' = Prefix(n)
          /\ UNCHANGED << written, duration, complete >>

UpdateDuration == /\ readable = Prefix(Len(written))
                  /\ duration' = WholeDuration
                  /\ UNCHANGED << written, readable, complete >>

Complete == /\ readable = Prefix(Len(written))
            /\ duration = WholeDuration
            /\ complete' = TRUE
            /\ UNCHANGED << written, readable, duration >>

Next == (\E e \in Entries : Record(e)) \/ Appear \/ UpdateDuration \/ Complete

Spec == Init /\ [][Next]_vars
==============================================================================
