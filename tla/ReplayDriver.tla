----------------------------- MODULE ReplayDriver -----------------------------
(***************************************************************************)
(* The two offline drivers of the output worker (main.rs):                 *)
(*   "jpegs"    run_replay: loads a directory's pictures, all or none,     *)
(*              then paced frames, try_send, a frame the worker has no     *)
(*              room for is skipped; watches the signals and the sink      *)
(*   "capture"  run_replay_capture: decodes a recorded capture and waits   *)
(*              for the worker to take each frame; any bad line of the     *)
(*              metadata returns at once, without joining the worker       *)
(* Both end by dropping the sender, joining the worker and reading every   *)
(* status it left.                                                         *)
(***************************************************************************)
EXTENDS OutputSink, FiniteSets

CONSTANTS MaxItems,  \* bound: files in the directory, lines of the metadata
          MaxFrames  \* bound: frames offered by a replay that repeats

ASSUME ReplayAssumption == /\ MaxItems \in Nat /\ MaxFrames \in Nat

(***************************************************************************)
(* The items of the input, files in the order of their names or lines:     *)
(*   "frame"  a whole JPEG, or a line whose packet completes a frame       *)
(*   "bad"    a JPEG that is cut short or cannot be read, a malformed line *)
(*   "other"  a file of another kind, a line that brings no frame          *)
(***************************************************************************)
Items == {"frame", "bad", "other"}

VARIABLES mode,        \* "jpegs" or "capture"
          repeat,      \* --loop (run_replay only)
          input,       \* the items
          line,        \* lines read so far (run_replay_capture only)
          main,        \* where the main thread is
          stopping,    \* set by the signals, which only run_replay catches
          sequence,    \* frames produced so far
          skipped,     \* frames the full channel refused
          sink_error,  \* run_replay's sink_error, "none" if None
          result

vars == << sinkVars, mode, repeat, input, line, main, stopping, sequence,
           skipped, sink_error, result >>

Init == /\ SinkInit
        /\ mode \in {"jpegs", "capture"} /\ repeat \in BOOLEAN
        /\ mode = "capture" => ~repeat
        /\ input \in UNION {[1 .. n -> Items] : n \in 0 .. MaxItems}
        /\ line = 0
        /\ main = (IF mode = "jpegs" THEN "load" ELSE "wait")
        /\ stopping = FALSE /\ sequence = 0 /\ skipped = 0
        /\ sink_error = "none" /\ result = "none"

ReturnWith(value) == main' = "exit" /\ result' = value

(* Faulty variant: a file that is no whole JPEG is passed over. *)
LoadWholeFrames ==
  /\ main = "load"
  /\ IF \A i \in 1 .. Len(input) : input[i] # "frame"
     THEN ReturnWith("NoReplayFrames")
     ELSE main' = "wait" /\ UNCHANGED result
  /\ UNCHANGED << sinkVars, line, stopping, sequence, skipped, sink_error >>

(* load_replay_frames, before there is a worker. *)
LoadReplayFrames ==
  /\ main = "load"
  /\ IF \A i \in 1 .. Len(input) : input[i] = "other"
     THEN ReturnWith("NoReplayFrames")
     ELSE IF \E i \in 1 .. Len(input) : input[i] = "bad"
     THEN ReturnWith("Replay")
     ELSE main' = "wait" /\ UNCHANGED result
  /\ UNCHANGED << sinkVars, line, stopping, sequence, skipped, sink_error >>

Start ==
  /\ main = "wait" /\ SinkAnswered
  /\ IF WaitForSink = "None" THEN main' = "next" /\ UNCHANGED result
     ELSE ReturnWith(WaitForSink)
  /\ TakeStatus
  /\ UNCHANGED << line, stopping, sequence, skipped, sink_error >>

Frames == Cardinality({i \in 1 .. Len(input) : input[i] = "frame"})

MoreInput == IF mode = "jpegs" THEN sequence < Frames \/ repeat
             ELSE line < Len(input)

InputEnds ==
  /\ main = "next" /\ ~MoreInput
  /\ main' = "drop"
  /\ UNCHANGED << sinkVars, line, stopping, sequence, skipped, sink_error,
                  result >>

(* run_replay: one turn of the loop body up to the pacing sleep. *)
Watch ==
  /\ main = "next" /\ mode = "jpegs" /\ MoreInput
  /\ sequence < MaxFrames \/ stopping \/ CheckSink # "None"
  /\ IF stopping THEN main' = "drop" /\ UNCHANGED << sinkVars, sink_error >>
     ELSE /\ TakeStatus
          /\ CASE CheckSink = "None" -> main' = "send" /\ UNCHANGED sink_error
               [] CheckSink = "Ok"   -> main' = "drop" /\ UNCHANGED sink_error
               [] OTHER              -> main' = "drop" /\ sink_error' = CheckSink
  /\ UNCHANGED << line, stopping, sequence, skipped, result >>

OfferFrame ==
  /\ main = "send"
  /\ IF TrySend = "Disconnected"
     THEN main' = "drop" /\ UNCHANGED << sinkVars, sequence, skipped >>
     ELSE /\ main' = "sleep"
          /\ sequence' = sequence + 1
          /\ IF TrySend = "Ok" THEN Send(sequence') /\ UNCHANGED skipped
             ELSE skipped' = skipped + 1 /\ UNCHANGED sinkVars
  /\ UNCHANGED << line, stopping, sink_error, result >>

(* The pacing sleep looks at the signal flag every 10 ms. *)
Pace ==
  /\ main = "sleep"
  /\ main' = IF stopping THEN "drop" ELSE "next"
  /\ UNCHANGED << sinkVars, line, stopping, sequence, skipped, sink_error,
                  result >>

(* run_replay_capture: a decoded frame waits for room in the channel. *)
SendFrame ==
  /\ main = "next" /\ mode = "capture" /\ MoreInput
  /\ input[line + 1] = "frame"
  /\ CASE TrySend = "Full" -> FALSE
       [] TrySend = "Ok" -> /\ Send(sequence + 1) /\ line' = line + 1
                            /\ sequence' = sequence + 1 /\ UNCHANGED main
       [] OTHER -> main' = "drop" /\ UNCHANGED << sinkVars, line, sequence >>
  /\ UNCHANGED << stopping, skipped, sink_error, result >>

(* Another endpoint, no data, no frame yet, or a malformed record, which     *)
(* resets the decoder.                                                       *)
SkipLine ==
  /\ main = "next" /\ mode = "capture" /\ MoreInput
  /\ input[line + 1] = "other"
  /\ line' = line + 1
  /\ UNCHANGED << sinkVars, main, stopping, sequence, skipped, sink_error,
                  result >>

BadLine ==
  /\ main = "next" /\ mode = "capture" /\ MoreInput
  /\ input[line + 1] = "bad"
  /\ ReturnWith("Replay")
  /\ UNCHANGED << sinkVars, line, stopping, sequence, skipped, sink_error >>

(* Faulty variant: the worker is joined with the sender still alive. *)
HangUpNever ==
  /\ main = "drop"
  /\ main' = "join"
  /\ UNCHANGED << sinkVars, line, stopping, sequence, skipped, sink_error,
                  result >>

HangUp ==
  /\ main = "drop"
  /\ DropSender
  /\ main' = "join"
  /\ UNCHANGED << line, stopping, sequence, skipped, sink_error, result >>

(* Faulty variant: what the worker said last is not read. *)
JoinUnread ==
  /\ main = "join" /\ sink = "ended"
  /\ ReturnWith(IF outcome = "Panicked" THEN "SinkPanicked"
                ELSE IF sink_error # "none" THEN sink_error ELSE "Ok")
  /\ UNCHANGED << sinkVars, line, stopping, sequence, skipped, sink_error >>

(* join, then drain the status channel. *)
Join ==
  /\ main = "join" /\ sink = "ended"
  /\ ReturnWith(IF outcome = "Panicked" THEN "SinkPanicked"
                ELSE IF \E i \in 1 .. Len(statuses) : statuses[i] = "Failed"
                THEN "Sink"
                ELSE IF sink_error # "none" THEN sink_error ELSE "Ok")
  /\ UNCHANGED << sinkVars, line, stopping, sequence, skipped, sink_error >>

Signal ==
  /\ mode = "jpegs" /\ main \notin {"load", "exit"} /\ ~stopping
  /\ stopping' = TRUE
  /\ UNCHANGED << sinkVars, line, main, sequence, skipped, sink_error, result >>

Options == << mode, repeat, input >>

Worker == /\ main \notin {"load", "exit"}
          /\ SinkNext
          /\ UNCHANGED << Options, line, main, stopping, sequence, skipped,
                          sink_error, result >>

Main == /\ \/ LoadReplayFrames \/ Start \/ InputEnds \/ Watch \/ OfferFrame
           \/ Pace \/ SendFrame \/ SkipLine \/ BadLine \/ HangUp \/ Join
        /\ UNCHANGED Options

Finished == main = "exit" /\ UNCHANGED vars

Next == \/ Main \/ Worker \/ Finished
        \/ Signal /\ UNCHANGED Options

Spec == Init /\ [][Next]_vars

(* The main thread and the worker run whenever they can. *)
FairSpec == Spec /\ WF_vars(Main) /\ WF_vars(Worker)

-----------------------------------------------------------------------------
(* run_replay, run_replay_capture: an output that failed makes the replay    *)
(* fail, however the failure races with try_send, the end of the input and   *)
(* the signals; only a malformed input may be reported in its place.         *)
OutputFailureReported ==
  main = "exit" /\ outcome \in {"Failed", "Panicked"}
    => result \notin {"none", "Ok"}

(* What is written is in the order of the input, none twice, and, as a raw   *)
(* capture waits for its frames to be taken, without a hole even if a bad    *)
(* line ends it with the worker still at work.  A replay that ends well met  *)
(* no bad item and has written every frame it did not skip, of all there     *)
(* are if it was let run; unless the reader closed the pipe.                 *)
ReplayComplete ==
  /\ \A i, j \in 1 .. Len(written) : i < j => written[i] < written[j]
  /\ mode = "capture" => \A i \in 1 .. Len(written) : written[i] = i
  /\ main = "exit" /\ result = "Ok" /\ outcome = "EndOfFrames" =>
       /\ Len(written) = sequence - skipped
       /\ \A i \in 1 .. Len(input) : input[i] # "bad"
       /\ ~stopping /\ ~repeat => sequence = Frames

(* The replay ends, unless it repeats and no signal comes: the blocking send *)
(* of run_replay_capture and the join are released by the worker, which ends *)
(* after the sender is dropped.                                              *)
ReplayEnds == (stopping \/ ~repeat) ~> main = "exit"
===============================================================================
