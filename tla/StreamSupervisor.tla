--------------------------- MODULE StreamSupervisor ---------------------------
(***************************************************************************)
(* handycam stream (run_stream, run_session and their helpers): the main   *)
(* thread opens the camera, feeds decoded frames to the output worker,     *)
(* reconnects when the camera goes away, and leaves on a signal or when    *)
(* the output ends.  A whole UsbSession is "open" or not here; its inner   *)
(* steps are UsbSession's.                                                 *)
(***************************************************************************)
EXTENDS OutputSink, FiniteSets

CONSTANTS Ports,        \* USB ports cameras are plugged into
          FatalOpens,   \* may opening fail for a reason that is not retried?
          MaxFrames     \* bound: frames the camera produces

ASSUME SupervisorAssumption == /\ FatalOpens \in BOOLEAN
                               /\ MaxFrames \in Nat
                               /\ {"any", "none", "gone", "NoCamera",
                                   "AmbiguousCamera"} \cap Ports = {}

VARIABLES main,        \* where the main thread is
          stopping,    \* set by SIGINT and SIGTERM
          session,     \* the open UsbSession: its port, "gone" once the device
                       \* it opened was unplugged, or "none"
          result,      \* what run_stream returns: Ok, an AppError or, for
                       \* AppError::Usb, the error of open it carries
          ended,       \* what run_session returned
          retry_delay, \* in units of 500 ms
          produced,    \* frames decoded so far
          frames, queue_drops,   \* DriverStats
          attached,    \* ports with a camera
          selector,    \* --usb-path: a port, or "any"
          no_reconnect \* --no-reconnect

mainVars == << main, stopping, session, result, ended, retry_delay, produced,
               frames, queue_drops, attached, selector, no_reconnect >>
vars == << sinkVars, mainVars >>

FirstDelay == 1
LongestDelay == 10

Init == /\ SinkInit
        /\ main = "wait" /\ stopping = FALSE /\ session = "none"
        /\ result = "none" /\ ended = "none" /\ retry_delay = FirstDelay
        /\ produced = 0 /\ frames = 0 /\ queue_drops = 0
        /\ attached \in SUBSET Ports /\ selector \in Ports \cup {"any"}
        /\ no_reconnect \in BOOLEAN

Counters == << produced, frames, queue_drops >>
Environment == << stopping, attached, selector, no_reconnect >>

-----------------------------------------------------------------------------
(* Leaving the loop with a result, and returning past the join.             *)

BreakWith(value) == main' = "drop" /\ result' = value
ReturnWith(value) == main' = "exit" /\ result' = value

Start ==
  /\ main = "wait" /\ SinkAnswered
  /\ IF WaitForSink = "None" THEN main' = "top" /\ UNCHANGED result
     ELSE ReturnWith(WaitForSink)
  /\ TakeStatus
  /\ UNCHANGED << session, ended, retry_delay, Counters, Environment >>

(* The head of the reconnection loop. *)
Top ==
  /\ main = "top"
  /\ IF stopping THEN BreakWith("Ok") /\ UNCHANGED sinkVars
     ELSE /\ TakeStatus
          /\ IF CheckSink = "None" THEN main' = "open" /\ UNCHANGED result
             ELSE BreakWith(CheckSink)
  /\ UNCHANGED << session, ended, retry_delay, Counters, Environment >>

(* Faulty variant: the port numbers are not compared. *)
MatchesAnyPort == attached

(* select_device: the one camera that matches the selector, or an error. *)
Matches == IF selector = "any" THEN attached ELSE attached \cap {selector}
SelectDevice == CASE Cardinality(Matches) = 0 -> "NoCamera"
                  [] Cardinality(Matches) = 1 -> CHOOSE port \in Matches : TRUE
                  [] OTHER -> "AmbiguousCamera"

Opened ==
  /\ main = "open" /\ SelectDevice \in Ports
  /\ session' = SelectDevice
  /\ main' = "session" /\ retry_delay' = FirstDelay
  /\ UNCHANGED << sinkVars, result, ended, Counters, Environment >>

(* Errors of open.  "Refused" stands for those of a camera that is there:    *)
(* wrong descriptors, kernel driver, busy, no permission, short answer, no   *)
(* acknowledgement.                                                          *)
OpenErrors == IF SelectDevice \in Ports
              THEN {"NoDevice", "Io", "Timeout"}
                   \cup IF FatalOpens THEN {"Refused"} ELSE {}
              ELSE {SelectDevice} \cap {"NoCamera", "AmbiguousCamera"}

(* Faulty variant: only an error of the bus is retried. *)
ShouldRetryBusErrors(error) == error \in {"NoDevice", "Io", "Timeout"}

ShouldRetryOpen(error) == error \in {"NoCamera", "NoDevice", "Io", "Timeout"}

OpenFails ==
  /\ main = "open"
  /\ \E error \in OpenErrors :
       IF ShouldRetryOpen(error) /\ ~no_reconnect
       THEN main' = "retry" /\ UNCHANGED result
       ELSE BreakWith(error)
  /\ UNCHANGED << sinkVars, session, ended, retry_delay, Counters, Environment >>

(***************************************************************************)
(* wait_interruptibly: looks at the flag and the sink every 50 ms.  A sink *)
(* that failed leaves run_stream at once, by ?, without joining it.        *)
(***************************************************************************)
RetryWatches ==
  /\ main = "retry"
  /\ IF stopping THEN BreakWith("Ok") /\ UNCHANGED sinkVars
     ELSE /\ TakeStatus
          /\ CASE CheckSink = "None" -> UNCHANGED << main, result >>
               [] CheckSink = "Ok"   -> BreakWith("Ok")
               [] OTHER              -> ReturnWith(CheckSink)
  /\ UNCHANGED << session, ended, retry_delay, Counters, Environment >>

RetryElapses ==
  /\ main = "retry"
  /\ retry_delay' = IF 2 * retry_delay > LongestDelay THEN LongestDelay
                    ELSE 2 * retry_delay
  /\ main' = "top"
  /\ UNCHANGED << sinkVars, session, result, ended, Counters, Environment >>

-----------------------------------------------------------------------------
(* run_session.                                                             *)

EndSession(how) == main' = "stop" /\ ended' = how

SessionTop ==
  /\ main = "session"
  /\ IF stopping THEN EndSession("Stopped") /\ UNCHANGED sinkVars
     ELSE /\ TakeStatus
          /\ CASE CheckSink = "None" -> main' = "poll" /\ UNCHANGED ended
               [] CheckSink = "Ok"   -> EndSession("SinkClosed")
               [] OTHER              -> EndSession(CheckSink)
  /\ UNCHANGED << session, result, retry_delay, Counters, Environment >>

Poll ==
  /\ main = "poll"
  /\ \/ main' = "events" /\ UNCHANGED ended
     \/ EndSession(IF stopping THEN "Stopped" ELSE "Disconnected")
  /\ UNCHANGED << sinkVars, session, result, retry_delay, Counters,
                  Environment >>

(* A packet of the batch completed a frame. *)
Frame ==
  /\ main = "events" /\ produced < MaxFrames
  /\ produced' = produced + 1
  /\ CASE TrySend = "Ok" ->
            /\ Send(produced') /\ frames' = frames + 1
            /\ UNCHANGED << queue_drops, main, ended >>
       [] TrySend = "Full" ->
            /\ queue_drops' = queue_drops + 1
            /\ UNCHANGED << sinkVars, frames, main, ended >>
       [] TrySend = "Disconnected" ->
            /\ EndSession("SinkClosed")
            /\ UNCHANGED << sinkVars, frames, queue_drops >>
  /\ UNCHANGED << session, result, retry_delay, Environment >>

(* An ending event of the batch. *)
CameraEnds ==
  /\ main = "events"
  /\ EndSession("Disconnected")
  /\ UNCHANGED << sinkVars, session, result, retry_delay, Counters,
                  Environment >>

BatchDone ==
  /\ main = "events"
  /\ main' = "session"
  /\ UNCHANGED << sinkVars, session, result, ended, retry_delay, Counters,
                  Environment >>

-----------------------------------------------------------------------------
(* session.stop(), then what run_session returned decides.                  *)

(* Faulty variants: --no-reconnect is only looked at when opening fails; the *)
(* first disconnection ends the program.                                     *)
DecideRetrying ==
  CASE ended \in {"Stopped", "SinkClosed"} -> BreakWith("Ok")
    [] ended = "Disconnected" -> main' = "top" /\ UNCHANGED result
    [] OTHER -> BreakWith(ended)

DecideLeaving ==
  CASE ended \in {"Stopped", "SinkClosed"} -> BreakWith("Ok")
    [] OTHER -> BreakWith(ended)

Decide ==
  CASE ended \in {"Stopped", "SinkClosed"} -> BreakWith("Ok")
    [] ended = "Disconnected" -> IF no_reconnect THEN BreakWith("Disconnected")
                                 ELSE main' = "top" /\ UNCHANGED result
    [] OTHER -> BreakWith(ended)

(* Faulty variant: an error of run_session leaves before the stop. *)
StopUnlessError ==
  /\ main = "stop"
  /\ session' = IF ended \in {"Sink", "SinkStopped"} THEN session ELSE "none"
  /\ Decide
  /\ UNCHANGED << sinkVars, ended, retry_delay, Counters, Environment >>

StopSession ==
  /\ main = "stop"
  /\ session' = "none"
  /\ Decide
  /\ UNCHANGED << sinkVars, ended, retry_delay, Counters, Environment >>

(* Faulty variant: joins the worker with the sender still alive. *)
HangUpNever == /\ main = "drop"
               /\ main' = "join"
               /\ UNCHANGED << sinkVars, session, result, ended, retry_delay,
                               Counters, Environment >>

HangUp == /\ main = "drop"
          /\ DropSender
          /\ main' = "join"
          /\ UNCHANGED << session, result, ended, retry_delay, Counters,
                          Environment >>

Join == /\ main = "join"
        /\ sink = "ended"
        /\ ReturnWith(IF outcome = "Panicked" THEN "SinkPanicked" ELSE result)
        /\ UNCHANGED << sinkVars, session, ended, retry_delay, Counters,
                        Environment >>

-----------------------------------------------------------------------------
Signal == /\ main # "exit" /\ ~stopping
          /\ stopping' = TRUE
          /\ UNCHANGED << sinkVars, main, session, result, ended, retry_delay,
                          Counters, attached, selector, no_reconnect >>

(* A device that was unplugged is lost to its session, even if it comes back. *)
PlugOrUnplug == /\ main # "exit"
                /\ \E port \in Ports :
                     /\ attached' = IF port \in attached THEN attached \ {port}
                                    ELSE attached \cup {port}
                     /\ session' = IF session = port THEN "gone" ELSE session
                /\ UNCHANGED << sinkVars, main, stopping, result, ended,
                                retry_delay, Counters, selector, no_reconnect >>

(* Once run_stream has returned the process exits, worker and all. *)
Worker == main # "exit" /\ SinkNext /\ UNCHANGED mainVars

Main == \/ Start \/ Top \/ Opened \/ OpenFails \/ RetryWatches
        \/ RetryElapses \/ SessionTop \/ Poll \/ Frame \/ CameraEnds
        \/ BatchDone \/ StopSession \/ HangUp \/ Join

Finished == main = "exit" /\ UNCHANGED vars

Next == Main \/ Worker \/ Signal \/ PlugOrUnplug \/ Finished

(***************************************************************************)
(* The main thread always has a next step unless it waits for the worker;  *)
(* a batch of events is finite; the delay of a retry passes.  The worker   *)
(* runs whenever it can, which assumes a downstream that reads, closes or  *)
(* fails.  An open tried for ever on a camera that is there succeeds.  A   *)
(* session whose device was unplugged ends (UsbSession: UnplugEndsSession: *)
(* its transfers fail, and their events are read).                         *)
(***************************************************************************)
Fairness == /\ WF_vars(Main)
            /\ WF_vars(BatchDone)
            /\ WF_vars(RetryElapses)
            /\ SF_vars(Opened)
            /\ SF_vars(session = "gone" /\ CameraEnds)
            /\ WF_vars(Worker)

Spec == Init /\ [][Next]_vars
FairSpec == Spec /\ Fairness

-----------------------------------------------------------------------------
(* Every variable has its type. *)
TypeOK ==
  /\ SinkTypeOK
  /\ main \in {"wait", "top", "open", "retry", "session", "poll", "events",
               "stop", "drop", "join", "exit"}
  /\ stopping \in BOOLEAN /\ session \in Ports \cup {"none", "gone"}
  /\ attached \subseteq Ports /\ selector \in Ports \cup {"any"}
  /\ no_reconnect \in BOOLEAN
  /\ result \in {"none", "Ok", "NoCamera", "AmbiguousCamera", "NoDevice", "Io",
                 "Timeout", "Refused", "Disconnected", "Sink", "SinkStopped",
                 "SinkPanicked"}
  /\ ended \in {"none", "Stopped", "SinkClosed", "Disconnected", "Sink",
                "SinkStopped"}
  /\ retry_delay \in FirstDelay .. LongestDelay
  /\ produced \in Nat /\ frames \in Nat /\ queue_drops \in Nat

(* run_stream: on every path out of it, and whenever it is about to open the *)
(* camera again, the previous session was stopped.                           *)
OneSessionAtATime ==
  main \notin {"session", "poll", "events", "stop"} => session = "none"

(* run_stream and the worker: frames are written in the order they were      *)
(* decoded, none twice, across reconnections and dropped frames; and a frame *)
(* counted in stats.frames is written before the process leaves, unless the  *)
(* output itself closed, failed or panicked: the sender is dropped before    *)
(* the join and the worker empties the channel.                              *)
NoAcceptedFrameLost ==
  /\ \A i, j \in 1 .. Len(written) : i < j => written[i] < written[j]
  /\ main = "exit" /\ outcome \in {"none", "EndOfFrames"}
       => Len(written) = frames

(* run_session: try_send never holds the main thread back: it is never the   *)
(* frame queue that keeps a signal from being seen, so a signal ends the     *)
(* program whatever the camera does.                                         *)
SignalExits == stopping ~> main = "exit"

(* docs/production-driver.md: closing a downstream pipe stops the camera     *)
(* cleanly: once the worker is gone the program ends, with or without a      *)
(* camera.                                                                   *)
SinkEndExits == sink = "ended" ~> main = "exit"

(* Nobody asks the program to end, and the output works. *)
Undisturbed == ~stopping /\ outcome \in {"none", "EndOfFrames"}

(* --usb-path names this port and a camera is there, or, with no --usb-path, *)
(* it is the port of the only camera.                                        *)
Wanted(port) == \/ selector = port /\ port \in attached
                \/ selector = "any" /\ attached = {port}

(* docs/production-driver.md: the program reinitializes the camera after     *)
(* reconnection: undisturbed, through any number of unpluggings, lost        *)
(* sessions and failed openings, whatever is plugged in beside the camera    *)
(* --usb-path names, it comes back to the wanted camera once that stays, and *)
(* has not left before; unless a camera refused it for good, or two were     *)
(* attached with nothing to choose by.                                       *)
Reconnects ==
  \A port \in Ports :
    /\ ~no_reconnect /\ <>[]Wanted(port)
    /\ []Undisturbed
    /\ [](result # "Refused" /\ (selector = "any" => Cardinality(attached) <= 1))
    => []<>(session = port)

(* docs/production-driver.md: the program waits when the camera is absent:   *)
(* undisturbed, however often it tries and whatever else is plugged in, no   *)
(* camera where it is looked for never ends it.                              *)
AbsentCameraAwaited ==
  /\ ~no_reconnect /\ [](\A port \in attached : selector \notin {port, "any"})
  /\ []Undisturbed
  => [](main # "exit")

(* --no-reconnect: whatever ends the first session, and whatever the camera  *)
(* and the output do next, no second session is opened, and a lost camera is *)
(* the program's error even if a signal or a closed pipe follows it.         *)
SingleSession ==
  [][no_reconnect =>
       /\ ended # "none" /\ session = "none" => session' = "none"
       /\ main' = "exit" /\ ended = "Disconnected" =>
            result' \in {"Disconnected", "SinkPanicked"}]_vars

(* docs/production-driver.md: closing a downstream pipe is no error: if the  *)
(* output ended with a closed pipe, run_stream does not blame the output.    *)
PipeCloseIsClean ==
  main = "exit" /\ outcome = "BrokenPipe" => result \notin {"Sink", "SinkStopped"}

(* contrib/handycam.service restarts the program on failure, and AppError    *)
(* has "output sink failed": an output that failed, with nobody asking the   *)
(* program to stop, makes the program fail.                                  *)
SinkFailureReported ==
  main = "exit" /\ outcome = "Failed" /\ ~stopping => result # "Ok"
===============================================================================
