---------------------------- MODULE CaptureDriver ----------------------------
(***************************************************************************)
(* handycam capture (run_capture, run_capture_session): the camera, the    *)
(* audio worker and the file are opened in turn; then one loop drains the  *)
(* worker's chunks and polls the camera, orders what one turn brought by   *)
(* observation time, puts it on the timeline and writes it.                *)
(*                                                                         *)
(* The decoder is taken by what CameraStream shows of it: frames chain     *)
(* until a reset, which costs the record under way and the next one and    *)
(* starts the unwrapped timestamps at 0 again.  The audio worker is taken  *)
(* by what it sends: whole periods with consecutive sample positions; an   *)
(* overrun loses sound but no position, and flags the next period.         *)
(* Every event carries `true`, the host time its content began.            *)
(***************************************************************************)
EXTENDS AvSynchronizer, Sequences

CONSTANTS Quantum,   \* granularity of the host clock, in ms
          MaxJitter, \* bound: delay of a packet's or period's delivery
          MaxTime,   \* bound: length of the capture, in ms
          MaxQueued, \* bound: audio periods waiting for the loop
          AudioDelay, \* --audio-delay-ms
          Worlds,    \* what a capture may meet: "late" or "lost" deliveries
          Resets,    \* may packet errors and malformed records reset video?
          Overruns,  \* may the audio device overrun?
          Freezes    \* may the camera's timestamp stand still, once it ran?

Period == 40   \* nominal video record and audio period, in ms

(* What `last` remembers of an event: when its content began, its PTS as it  *)
(* was written, whether the content follows the event before, whether this   *)
(* event and whether any up to it were reported discontinuous.               *)
Written == [true : Int, pts : Int, joined : BOOLEAN, discontinuity : BOOLEAN,
            reported : BOOLEAN]

ASSUME CaptureAssumption ==
  /\ Quantum \in Nat \ {0} /\ MaxJitter \in Nat /\ MaxTime \in Nat
  /\ MaxQueued \in Nat \ {0} /\ AudioDelay \in Int
  /\ Worlds \subseteq {"late", "lost"}
  /\ Resets \in BOOLEAN /\ Overruns \in BOOLEAN /\ Freezes \in BOOLEAN
  /\ NONE \notin Written

VARIABLES main, stopping, now,
          world,   \* the member of Worlds this capture meets
          camera,  \* header: time of the next record header; unwrapped: of the
                   \* record it ends; warmup: headers until a frame comes out;
                   \* gap: video_source_discontinuity
          audio,   \* due: start of the next period; position: its sample
                   \* position; gap: the worker's source_discontinuity
          chunks,  \* the audio channel
          batch,   \* media_events
          sync,
          last,    \* last event written of each track, with its timing
          finalized, \* does the duration in the file's header cover the file?
          open,    \* is the USB session open, is the audio worker running?
          result

vars == << main, stopping, now, world, camera, audio, chunks, batch, sync, last,
           finalized, open, result >>

Warmup == 2

NewCamera == [header |-> 0, unwrapped |-> 0, warmup |-> Warmup, gap |-> FALSE]

Init == /\ world \in Worlds
        /\ main = "plan" /\ stopping = FALSE /\ now = 0
        /\ camera = NewCamera
        /\ audio = [due |-> 0, position |-> 0, gap |-> FALSE]
        /\ chunks = << >> /\ batch = << >>
        /\ sync = NewSynchronizer
        /\ last = [t \in Tracks |-> NONE]
        /\ finalized = TRUE
        /\ open = [session |-> FALSE, worker |-> FALSE]
        /\ result = "none"

Larger(a, b) == IF a > b THEN a ELSE b

Media == << camera, audio, chunks, batch, sync, last, finalized, open >>

(* run_capture_session returns: decoder, synchronizer and events were its    *)
(* own, and nobody reads what waits in the audio channel.                    *)
EndWith(value) == /\ main' = "close" /\ result' = value
                  /\ camera' = NewCamera /\ sync' = NewSynchronizer
                  /\ batch' = << >> /\ chunks' = << >>
                  /\ UNCHANGED << stopping, now, audio, last, finalized, open >>

-----------------------------------------------------------------------------
(* run_capture, up to the session.  Each step may fail, which returns and    *)
(* drops what is open; dropping a session or a capture stops it.             *)

OpeningError == [plan |-> "Plan", camera |-> "Usb", spawn |-> "Audio",
                 create |-> "CreateCapture", header |-> "Matroska"]

OpeningStep(step, next) ==
  /\ main = step /\ main' = next
  /\ UNCHANGED << stopping, now, camera, audio, chunks, batch, sync, last,
                  finalized, result >>

LoadPlan == OpeningStep("plan", "camera") /\ UNCHANGED open
OpenCamera == /\ OpeningStep("camera", "spawn")
              /\ open' = [open EXCEPT !.session = TRUE]
SpawnAudio == /\ OpeningStep("spawn", "create")
              /\ open' = [open EXCEPT !.worker = TRUE]
CreateFile == OpeningStep("create", "header") /\ UNCHANGED open
WriteHeader == OpeningStep("header", "top") /\ UNCHANGED open

OpeningFails ==
  /\ main \in DOMAIN OpeningError
  /\ main' = "exit" /\ result' = OpeningError[main]
  /\ open' = [session |-> FALSE, worker |-> FALSE]
  /\ UNCHANGED << stopping, now, camera, audio, chunks, batch, sync, last,
                  finalized >>

-----------------------------------------------------------------------------
(* The world: time passes from the session's origin on, the device records  *)
(* sound, a signal comes once the handlers are registered.  Once the loop   *)
(* has ended nobody reads the sound or the signal's flag.                   *)

Recording == open.session /\ open.worker /\ main # "close"

Jitter == IF world = "late" THEN MaxJitter ELSE 0

Tick == /\ Recording
        /\ now + Quantum <= camera.header + Jitter
        /\ now + Quantum <= audio.due + Period + Jitter
        /\ now + Quantum <= MaxTime
        /\ now' = now + Quantum
        /\ UNCHANGED << main, stopping, Media, result >>

Signal == /\ main \notin {"plan", "close", "exit"} /\ ~stopping
          /\ stopping' = TRUE
          /\ UNCHANGED << main, now, Media, result >>

(* run_alsa_capture delivers a period; its status locates the first sample. *)
AudioPeriod ==
  /\ Recording /\ now >= audio.due + Period
  /\ Len(chunks) < MaxQueued
  /\ chunks' = Append(chunks,
       [track |-> "audio", observed |-> audio.due, true |-> audio.due,
        position |-> audio.position, duration |-> Period,
        source_discontinuity |-> audio.gap])
  /\ audio' = [due |-> audio.due + Period, position |-> audio.position + Period,
               gap |-> FALSE]
  /\ UNCHANGED << main, stopping, now, camera, batch, sync, last, finalized,
                  open, result >>

(* An overrun drops the period being read; the sample clock stands still. *)
AudioOverrun ==
  /\ Overruns /\ world = "lost" /\ Recording /\ now >= audio.due + Period
  /\ audio' = [audio EXCEPT !.due = @ + Period, !.gap = TRUE]
  /\ UNCHANGED << main, stopping, now, camera, chunks, batch, sync, last,
                  finalized, open, result >>

-----------------------------------------------------------------------------
(* run_capture_session.                                                     *)

Stopped ==
  /\ main = "top" /\ stopping
  /\ EndWith(IF last["audio"] = NONE THEN "NoCapturedAudio"
             ELSE IF last["video"] = NONE THEN "NoCapturedVideo"
             ELSE "Ok")

Top ==
  /\ main = "top" /\ ~stopping
  /\ main' = "poll"
  /\ batch' = chunks /\ chunks' = << >>
  /\ UNCHANGED << stopping, now, camera, audio, sync, last, finalized, open,
                  result >>

(* The audio worker failed or closed: its event ends the capture. *)
AudioEnds ==
  /\ main = "top" /\ ~stopping
  /\ EndWith("Audio")

(* The poll delivers the next record header, which completes a frame.  Its  *)
(* timestamp tells the frame's duration: none if the camera's clock, which   *)
(* moved at the first frame at least, stands still.                          *)
Durations == {Period} \cup IF Freezes /\ camera.unwrapped > 0 THEN {0} ELSE {}

VideoHeader ==
  /\ main = "poll" /\ now >= camera.header
  /\ IF camera.warmup > 0
     THEN /\ camera' = [camera EXCEPT !.header = @ + Period, !.warmup = @ - 1,
                                      !.unwrapped = 0]
          /\ UNCHANGED batch
     ELSE \E duration \in Durations :
          /\ batch' = Append(batch,
               [track |-> "video", true |-> camera.header - Period,
                observed |-> Larger(now - duration, 0),
                position |-> camera.unwrapped, duration |-> duration,
                source_discontinuity |-> camera.gap])
          /\ camera' = [camera EXCEPT !.header = @ + Period,
                                      !.unwrapped = @ + duration, !.gap = FALSE]
  /\ UNCHANGED << main, stopping, now, audio, chunks, sync, last, finalized,
                  open, result >>

(* PacketError or a malformed record: decoder.reset(), remembered.  It may  *)
(* fall on a packet of the record under way or on the header that ends it.  *)
VideoReset ==
  /\ Resets /\ world = "lost" /\ main = "poll"
  /\ \E step \in {0} \cup (IF now >= camera.header THEN {Period} ELSE {}) :
       camera' = [camera EXCEPT !.header = @ + step, !.warmup = Warmup,
                                !.gap = TRUE]
  /\ UNCHANGED << main, stopping, now, audio, chunks, batch, sync, last,
                  finalized, open, result >>

(* A poll that fails while stopping is no error, and skips the checks Top   *)
(* makes before it calls a capture good.                                   *)
PollFails ==
  /\ main = "poll"
  /\ EndWith(IF stopping THEN "Ok" ELSE "Camera")

(* An event that ends the session. *)
CameraEnds ==
  /\ main = "poll"
  /\ EndWith("Camera")

(* Faulty variant: polls until there is something to write. *)
PollWaits ==
  /\ main = "poll" /\ batch # << >>
  /\ main' = "write"
  /\ UNCHANGED << stopping, now, Media, result >>

PollDone ==
  /\ main = "poll"
  /\ main' = "write"
  /\ UNCHANGED << stopping, now, Media, result >>

(* The batch's next event in sort_by_key order, which is stable. *)
Earliest ==
  CHOOSE i \in 1 .. Len(batch) : \A j \in 1 .. Len(batch) :
    \/ batch[i].observed < batch[j].observed
    \/ batch[i].observed = batch[j].observed /\ i <= j

Without(s, i) == SubSeq(s, 1, i - 1) \o SubSeq(s, i + 1, Len(s))

(* The option shifts audio on the timeline, not before its start. *)
ApplyAudioDelay(timing, track) ==
  [timing EXCEPT !.pts = IF track = "video" THEN @
                         ELSE Larger(@ + AudioDelay, 0)]

WriteEvent ==
  /\ main = "write" /\ batch # << >>
  /\ LET event  == batch[Earliest]
         timing == ApplyAudioDelay(Timing(sync, event.track, event),
                                   event.track)
     IN  /\ sync' = AfterTiming(sync, event.track, event)
         /\ last' = [last EXCEPT ![event.track] =
                       [true |-> event.true, pts |-> timing.pts,
                        joined |-> last[event.track] = NONE
                                   \/ last[event.track].true + Period
                                        = event.true,
                        discontinuity |-> timing.discontinuity,
                        reported |->
                          \/ timing.discontinuity
                          \/ /\ last[event.track] # NONE
                             /\ last[event.track].reported]]
         /\ finalized' = FALSE
  /\ batch' = Without(batch, Earliest)
  /\ UNCHANGED << main, stopping, now, camera, audio, chunks, open, result >>

(* The disk refuses a cluster, or the periodic update of the duration. *)
WriteFails ==
  /\ main = "write"
  /\ EndWith("Matroska")

(* Every 10 s the turn ends by bringing the file's duration up to date. *)
TurnDone ==
  /\ main = "write" /\ batch = << >>
  /\ main' = "top"
  /\ finalized' \in {finalized, TRUE}
  /\ UNCHANGED << stopping, now, camera, audio, chunks, batch, sync, last, open,
                  result >>

-----------------------------------------------------------------------------
(* run_capture, after the session: stop both, then finalize on success.     *)

StopBoth == /\ main = "close" /\ main' = "exit"
            /\ open' = [session |-> FALSE, worker |-> FALSE]
            /\ UNCHANGED << stopping, now, camera, audio, chunks, batch, sync,
                            last >>

(* Faulty variants: an error returns before the workers are stopped; the     *)
(* file is left to the periodic update.                                      *)
CloseOnSuccess ==
  /\ main = "close" /\ main' = "exit"
  /\ open' = [session |-> result # "Ok", worker |-> result # "Ok"]
  /\ finalized' = TRUE
  /\ UNCHANGED << stopping, now, camera, audio, chunks, batch, sync, last,
                  result >>

CloseUnflushed == StopBoth /\ UNCHANGED << finalized, result >>

Close == /\ StopBoth
         /\ finalized' = (finalized \/ result = "Ok")
         /\ UNCHANGED result

(* The audio worker panicked or its process failed, or the flush did. *)
FinalizeFails == /\ result = "Ok"
                 /\ StopBoth
                 /\ result' \in {"Audio", "Matroska"}
                 /\ UNCHANGED finalized

Finished == main = "exit" /\ UNCHANGED vars

Open == LoadPlan \/ OpenCamera \/ SpawnAudio \/ CreateFile \/ WriteHeader

Loop == Open \/ Top \/ Stopped \/ PollDone \/ WriteEvent \/ TurnDone \/ Close

Arrivals == VideoHeader \/ VideoReset \/ PollFails \/ CameraEnds \/ AudioEnds
            \/ AudioPeriod \/ AudioOverrun \/ WriteFails \/ FinalizeFails
            \/ OpeningFails

Next == /\ Loop \/ Arrivals \/ Tick \/ Signal \/ Finished
        /\ UNCHANGED world

Spec == Init /\ [][Next]_vars

(* The loop never rests, whatever arrives or fails to: a poll returns within *)
(* its 10 ms.                                                                *)
FairSpec == Spec /\ WF_vars(Loop /\ UNCHANGED world)

-----------------------------------------------------------------------------
Error(track) == last[track].pts - last[track].true

Distance(a, b) == IF a > b THEN a - b ELSE b - a

(* docs/av-sync.md: the synchronizer preserves the observed startup offset   *)
(* and reports what deviates; protocol-research-status.md: the camera's      *)
(* timestamp is a health check, not the sole presentation clock.  Whatever   *)
(* the jitter of deliveries and however turns of the loop batch them, sound  *)
(* and picture written last are apart by the delay asked for, give or take   *)
(* the first frame's jitter, until a discontinuity of either is reported.    *)
AvOffsetPreserved ==
  last["video"] # NONE /\ last["audio"] # NONE
    => \/ \E t \in Tracks : last[t].reported
       \/ Distance(Error("video") + AudioDelay, Error("audio")) <= MaxJitter

(* sync.rs: pts_us is a position relative to the stream start on a shared    *)
(* monotonic timeline: the picture's PTS never goes back.                    *)
VideoNeverRewinds ==
  [][last["video"] # NONE => last'["video"].pts >= last["video"].pts]_vars

(* sync.rs, run_capture_session: an event is reported discontinuous whenever *)
(* content was lost between it and the one before on its track, through      *)
(* any number of resets, overruns and turns in between.                      *)
LossIsReported ==
  \A t \in Tracks : last[t] # NONE /\ ~last[t].joined => last[t].discontinuity

(* run_capture: every way out, from any step of the opening or out of the    *)
(* loop, stops the USB session and the audio worker.                         *)
BothStopped == main = "exit" => ~open.session /\ ~open.worker

(* docs/av-sync.md: the file is finalized cleanly on SIGINT: a capture only  *)
(* succeeds when it was asked to stop, even if the camera went at that       *)
(* moment, and leaves the duration of everything it wrote in the header.     *)
FinalizedOnSuccess ==
  main = "exit" /\ result = "Ok"
    => stopping /\ finalized

(* run_capture_session: a poll returns within 10 ms with or without data, so  *)
(* a signal ends the capture even if camera and microphone fell silent.      *)
SignalEndsCapture == stopping ~> main = "exit"
==============================================================================
