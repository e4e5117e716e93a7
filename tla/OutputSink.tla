----------------------------- MODULE OutputSink -----------------------------
(***************************************************************************)
(* The output worker of handycam-cli (sink.rs) and the two channels that   *)
(* join it to the main thread: frames through a sync_channel(1), statuses  *)
(* through an unbounded channel.  The drivers that feed it extend this     *)
(* module.  Frames are numbered in the order the driver produces them.     *)
(***************************************************************************)
EXTENDS Integers, Sequences

VARIABLES sink,      \* where the worker is
          held,      \* the frame the worker is writing
          channel,   \* the frame channel's buffer
          sender,    \* is the driver's SyncSender alive?
          statuses,  \* the status channel
          outcome,   \* how run_stdout or run_v4l2 ended, "none" before that
          written    \* numbers of the frames written downstream

sinkVars == << sink, held, channel, sender, statuses, outcome, written >>

Capacity == 1

SinkInit == /\ sink = "starting" /\ held = 0
            /\ channel = << >> /\ sender = TRUE
            /\ statuses = << >> /\ outcome = "none"
            /\ written = << >>

(* The Receiver lives inside run_stdout or run_v4l2, the status Sender until *)
(* the thread ends.                                                          *)
ReceiverAlive == sink \in {"starting", "receiving", "writing"}
StatusOpen == sink # "ended"

-----------------------------------------------------------------------------
(* The worker.  run_v4l2 may reject its device before it is ready.          *)

BecomeReady == /\ sink = "starting"
               /\ sink' = "receiving"
               /\ statuses' = Append(statuses, "Ready")
               /\ UNCHANGED << held, channel, sender, outcome, written >>

(* Faulty variant: the frame is read but stays in the channel. *)
ReceivePeeking == /\ sink = "receiving"
                  /\ channel # << >>
                  /\ held' = Head(channel)
                  /\ sink' = "writing"
                  /\ UNCHANGED << channel, sender, statuses, outcome, written >>

Receive == /\ sink = "receiving"
           /\ channel # << >>
           /\ held' = Head(channel) /\ channel' = Tail(channel)
           /\ sink' = "writing"
           /\ UNCHANGED << sender, statuses, outcome, written >>

Write == /\ sink = "writing"
         /\ written' = Append(written, held)
         /\ sink' = "receiving"
         /\ UNCHANGED << held, channel, sender, statuses, outcome >>

(* Return from run_stdout or run_v4l2: the Receiver is dropped here, before *)
(* spawn's closure sends the final status.                                  *)
Return(how) == /\ sink' = "returned"
               /\ outcome' = how
               /\ channel' = << >>
               /\ UNCHANGED << held, sender, statuses, written >>

(* Faulty variant: leaves at the hang-up with a frame still buffered. *)
EndAtHangup == /\ sink = "receiving"
               /\ ~sender
               /\ Return("EndOfFrames")

EndOfFrames == /\ sink = "receiving"
               /\ channel = << >> /\ ~sender
               /\ Return("EndOfFrames")

BrokenPipe == /\ sink = "writing"
              /\ Return("BrokenPipe")

(* Bad device, conversion error, short write or any other I/O error. *)
Fail == /\ sink \in {"starting", "writing"}
        /\ Return("Failed")

(* Faulty variant: a closed pipe is an error like any other. *)
StatusOfAnyError(how) == IF how = "EndOfFrames" THEN "Closed" ELSE "Failed"

StatusOf(how) == IF how \in {"EndOfFrames", "BrokenPipe"} THEN "Closed"
                 ELSE "Failed"

ReportStatus == /\ sink = "returned"
                /\ statuses' = Append(statuses, StatusOf(outcome))
                /\ sink' = "ended"
                /\ UNCHANGED << held, channel, sender, outcome, written >>

(* Unwinding drops the Receiver and the status Sender, and sends nothing. *)
Panic == /\ sink = "writing"
         /\ sink' = "ended"
         /\ outcome' = "Panicked"
         /\ channel' = << >>
         /\ UNCHANGED << held, sender, statuses, written >>

SinkNext == BecomeReady \/ Receive \/ Write \/ EndOfFrames \/ BrokenPipe
            \/ Fail \/ ReportStatus \/ Panic

-----------------------------------------------------------------------------
(* The driver's ends of the channels.                                       *)

(* What try_send on the frame channel finds. *)
TrySend == IF ~ReceiverAlive THEN "Disconnected"
           ELSE IF Len(channel) = Capacity THEN "Full" ELSE "Ok"

Send(frame) == /\ channel' = Append(channel, frame)
               /\ UNCHANGED << sink, held, sender, statuses, outcome, written >>

DropSender == /\ sender' = FALSE
              /\ UNCHANGED << sink, held, channel, statuses, outcome, written >>

(* Faulty variant: only a failure of the worker is looked for. *)
CheckSinkFailure ==
  IF statuses # << >> /\ Head(statuses) = "Failed" THEN "Sink" ELSE "None"

(* check_sink: None, Some(Ok) or an error; it takes one status. *)
CheckSink ==
  IF statuses = << >> THEN IF StatusOpen THEN "None" ELSE "SinkStopped"
  ELSE CASE Head(statuses) = "Ready"  -> "None"
         [] Head(statuses) = "Closed" -> "Ok"
         [] Head(statuses) = "Failed" -> "Sink"

TakeStatus == /\ statuses' = IF statuses = << >> THEN << >> ELSE Tail(statuses)
              /\ UNCHANGED << sink, held, channel, sender, outcome, written >>

(* wait_for_sink: blocks for the first status. *)
SinkAnswered == statuses # << >> \/ ~StatusOpen

WaitForSink == IF statuses = << >> THEN "SinkStopped"
               ELSE CASE Head(statuses) = "Ready"  -> "None"
                      [] Head(statuses) = "Failed" -> "Sink"
                      [] Head(statuses) = "Closed" -> "SinkStopped"

-----------------------------------------------------------------------------
SinkTypeOK == /\ sink \in {"starting", "receiving", "writing", "returned",
                           "ended"}
              /\ held \in Nat
              /\ channel \in Seq(Nat) /\ Len(channel) <= Capacity
              /\ sender \in BOOLEAN
              /\ statuses \in Seq({"Ready", "Closed", "Failed"})
              /\ outcome \in {"none", "EndOfFrames", "BrokenPipe", "Failed",
                              "Panicked"}
              /\ written \in Seq(Nat)
=============================================================================
