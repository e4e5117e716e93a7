----------------------------- MODULE AudioWorker -----------------------------
(***************************************************************************)
(* The audio threads of handycam-linux-audio (lib.rs): AlsaCapture, which  *)
(* reads a nonblocking PCM, and ArecordCapture, which reads the pipe of a  *)
(* child process.  Time is counted in sample frames, and a sample frame is *)
(* the time at which it was recorded, so that what a chunk holds can be    *)
(* compared with what it says.                                             *)
(*                                                                         *)
(* The device (external) records one frame per unit of time into a ring of *)
(* Buffer frames.  When the ring is full it stops, "xrun": ALSA answers    *)
(* reads and waits with EPIPE until it is recovered, arecord exits (it     *)
(* runs with --fatal-errors) and leaves what its pipe holds.               *)
(***************************************************************************)
EXTENDS Integers, Sequences

CONSTANTS Period,   \* PERIOD_SAMPLE_FRAMES
          Buffer,   \* four periods
          MaxTime,  \* bound: how long the device records
          NONE

ASSUME AudioAssumption == /\ Period \in Nat \ {0}
                          /\ Buffer \in Nat /\ Buffer >= Period
                          /\ MaxTime \in Nat

VARIABLES backend,   \* "alsa" or "arecord"
          now,       \* the monotonic clock
          device,    \* state; read: next frame to read; end: next to record
          worker,    \* where the thread is
          samples,   \* frames read of the period under way
          gap,       \* source_discontinuity
          clock,     \* AudioClock.next_sample_frame
          chunk,     \* the last chunk sent
          final,     \* the last event, Failed or Closed, "none" before that
          running,   \* the flag stop lowers
          listening, \* is the Receiver alive?
          client     \* the owner of the capture

vars == << backend, now, device, worker, samples, gap, clock, chunk, final,
           running, listening, client >>

threadVars == << samples, gap, clock, chunk >>
ownerVars == << backend, running, listening, client >>

Init == /\ backend \in {"alsa", "arecord"}
        /\ now = 0
        /\ device = [state |-> "running", read |-> 0, end |-> 0]
        /\ worker = "loop"
        /\ samples = << >> /\ gap = FALSE /\ clock = 0
        /\ chunk = NONE /\ final = "none"
        /\ running = TRUE /\ listening = TRUE /\ client = "using"

Available == device.end - device.read

-----------------------------------------------------------------------------
(* The device (external).                                                   *)

Tick == /\ client # "stopped" /\ now < MaxTime
        /\ now' = now + 1
        /\ device' = IF device.state # "running" THEN device
                     ELSE IF Available = Buffer
                     THEN [device EXCEPT !.state = "xrun"]
                     ELSE [device EXCEPT !.end = @ + 1]
        /\ UNCHANGED << worker, threadVars, final, ownerVars >>

-----------------------------------------------------------------------------
(* What both threads do at the end of a period and at their own end.        *)

Emit(observed) ==
  /\ chunk' = [samples |-> samples', position |-> clock, observed |-> observed,
               source_discontinuity |-> gap,
               exact |-> backend = "alsa" /\ device.state = "running",
               joined |-> \/ chunk = NONE
                          \/ samples'[1] = chunk.samples[Period] + 1]
  /\ clock' = clock + Period
  /\ gap' = FALSE

(* Sends to a Receiver that is gone are lost, and nobody looks. *)
EndWith(event) == /\ worker' = "done"
                  /\ final' = IF listening THEN event ELSE final
                  /\ UNCHANGED << now, threadVars, ownerVars >>

-----------------------------------------------------------------------------
(* run_alsa_capture.                                                        *)

(* The head of the outer loop; a lowered flag closes the device. *)
AlsaLoop == /\ backend = "alsa" /\ worker = "loop"
            /\ IF running
               THEN /\ worker' = "wait"
                    /\ UNCHANGED << now, device, threadVars, final, ownerVars >>
               ELSE /\ EndWith("Closed")
                    /\ UNCHANGED device

(* pcm.wait(100): timed out, or a period is there. *)
AlsaWait == /\ backend = "alsa" /\ worker = "wait"
            /\ device.state = "running"
            /\ \/ worker' = "loop"
               \/ Available >= Period /\ worker' = "read"
            /\ samples' = << >>
            /\ UNCHANGED << now, device, gap, clock, chunk, final, ownerVars >>

(* Faulty variant: fills the period before it looks at the flag. *)
ReadingUnflagged == /\ backend = "alsa" /\ worker = "read"
                    /\ Len(samples) < Period

Reading == /\ backend = "alsa" /\ worker = "read"
           /\ Len(samples) < Period /\ running

(* readi takes some of what is there; with nothing there it is EAGAIN and a *)
(* wait that changes nothing.                                               *)
AlsaRead ==
  /\ Reading /\ device.state = "running"
  /\ \E n \in 1 .. Period - Len(samples) :
       /\ n <= Available
       /\ samples' = samples \o [i \in 1 .. n |-> device.read + i - 1]
       /\ device' = [device EXCEPT !.read = @ + n]
  /\ UNCHANGED << now, worker, gap, clock, chunk, final, ownerVars >>

(* Faulty variants: goes on filling the period; does not remember the loss. *)
AlsaRecoverKeeping ==
  /\ Reading /\ device.state = "xrun"
  /\ gap' = TRUE
  /\ device' = [state |-> "running", read |-> now, end |-> now]
  /\ UNCHANGED << now, worker, samples, clock, chunk, final, ownerVars >>

AlsaRecoverUnmarked ==
  /\ Reading /\ device.state = "xrun"
  /\ samples' = << >>
  /\ device' = [state |-> "running", read |-> now, end |-> now]
  /\ UNCHANGED << now, worker, gap, clock, chunk, final, ownerVars >>

(* readi fails and try_recover restarts the device: what the ring held is   *)
(* lost, and the period starts over.                                        *)
AlsaRecover ==
  /\ Reading /\ device.state = "xrun"
  /\ gap' = TRUE /\ samples' = << >>
  /\ device' = [state |-> "running", read |-> now, end |-> now]
  /\ UNCHANGED << now, worker, clock, chunk, final, ownerVars >>

(* The inner loop ends: full, or cut short by the flag. *)
AlsaPeriod ==
  /\ backend = "alsa" /\ worker = "read" /\ ~Reading
  /\ worker' = IF Len(samples) = Period THEN "status" ELSE "loop"
  /\ UNCHANGED << now, device, threadVars, final, ownerVars >>

(* first_sample_timestamp_ns: the frames that are between the hardware and   *)
(* the first sample of the period, all of them recorded since.               *)
FirstSampleTimestamp == IF now >= Available + Period
                        THEN now - (Available + Period) ELSE 0

(* pcm.status, and the chunk. *)
AlsaSend ==
  /\ backend = "alsa" /\ worker = "status"
  /\ UNCHANGED samples
  /\ Emit(FirstSampleTimestamp)
  /\ worker' = IF listening THEN "loop" ELSE "done"
  /\ UNCHANGED << now, device, final, ownerVars >>

(* The sample format is refused at the start; wait, status, or a read that  *)
(* cannot be recovered fails.                                               *)
AlsaFails ==
  /\ backend = "alsa"
  /\ worker \in {"wait", "status"} \/ Reading \/ (worker = "loop" /\ clock = 0)
  /\ EndWith("Failed")
  /\ UNCHANGED device

(* Faulty variant: the thread leaves without a word. *)
AlsaOverrunsSilently ==
  /\ backend = "alsa" /\ worker = "wait" /\ device.state = "xrun"
  /\ worker' = "done"
  /\ UNCHANGED << now, device, threadVars, final, ownerVars >>

(* wait meets an overrun and fails with EPIPE: only readi recovers. *)
AlsaOverruns ==
  /\ backend = "alsa" /\ worker = "wait" /\ device.state = "xrun"
  /\ EndWith("Failed")
  /\ UNCHANGED device

-----------------------------------------------------------------------------
(* run_capture, the arecord thread, and the child's end of the pipe.        *)

ChildExits == /\ backend = "arecord" /\ device.state = "xrun"
              /\ device' = [device EXCEPT !.state = "gone"]
              /\ UNCHANGED << now, worker, threadVars, final, ownerVars >>

(* read_exact has a period; it is taken to have ended just now. *)
ArecordPeriod ==
  /\ backend = "arecord" /\ worker = "loop" /\ Available >= Period
  /\ samples' = [i \in 1 .. Period |-> device.read + i - 1]
  /\ device' = [device EXCEPT !.read = @ + Period]
  /\ Emit(IF now >= Period THEN now - Period ELSE 0)
  /\ worker' = IF listening THEN "loop" ELSE "done"
  /\ UNCHANGED << now, final, ownerVars >>

(* End of file inside a period: the child exited or was killed. *)
ArecordEnds ==
  /\ backend = "arecord" /\ worker = "loop"
  /\ Available < Period /\ device.state = "gone"
  /\ EndWith("Closed")
  /\ UNCHANGED device

ArecordFails ==
  /\ backend = "arecord" /\ worker = "loop"
  /\ EndWith("Failed")
  /\ UNCHANGED device

-----------------------------------------------------------------------------
(* The owner.  A capture that fails to start drops the Receiver first.      *)

HangUp == /\ client = "using" /\ listening
          /\ listening' = FALSE
          /\ UNCHANGED << backend, now, device, worker, threadVars, final,
                          running, client >>

(* stop, or Drop: lower the flag, or kill the child; then join. *)
Stop == /\ client = "using"
        /\ client' = "joining"
        /\ IF backend = "alsa" THEN running' = FALSE /\ UNCHANGED device
           ELSE device' = [device EXCEPT !.state = "gone"] /\ UNCHANGED running
        /\ UNCHANGED << backend, now, worker, threadVars, final, listening >>

Join == /\ client = "joining" /\ worker = "done"
        /\ client' = "stopped"
        /\ UNCHANGED << backend, now, device, worker, threadVars, final, running,
                        listening >>

Finished == client = "stopped" /\ UNCHANGED vars

-----------------------------------------------------------------------------
Worker == AlsaLoop \/ AlsaWait \/ AlsaRead \/ AlsaRecover \/ AlsaPeriod
          \/ AlsaSend \/ AlsaOverruns \/ ArecordPeriod \/ ArecordEnds

Next == \/ Worker \/ AlsaFails \/ ArecordFails
        \/ Tick \/ ChildExits \/ HangUp \/ Stop \/ Join \/ Finished

Spec == Init /\ [][Next]_vars

(* The thread runs, every wait of it ends within 100 ms, and the join        *)
(* returns once it ended.  Nothing is assumed of the device, nor that it     *)
(* fails.                                                                    *)
FairSpec == Spec /\ WF_vars(Worker) /\ WF_vars(Join)

-----------------------------------------------------------------------------
(* run_alsa_capture, run_capture: a chunk is one period of sound without a   *)
(* break in it, however reads, overruns and recoveries fall; and, with the   *)
(* ALSA device running, its observed start is when its first frame was       *)
(* recorded, however late it was read.                                       *)
ChunkIsOnePeriod ==
  chunk # NONE =>
    /\ Len(chunk.samples) = Period
    /\ \A i \in 1 .. Period : chunk.samples[i] = chunk.samples[1] + i - 1
    /\ chunk.exact => chunk.observed = chunk.samples[1]

(* docs/av-sync.md: the chunk after lost sound is marked discontinuous.  A   *)
(* break between two chunks is always flagged on the second.                 *)
GapReported == chunk # NONE /\ ~chunk.joined => chunk.source_discontinuity

(* run_capture_session reads the channel with try_iter, which says nothing   *)
(* of a disconnected one: a thread that ends tells so, unless nobody listens.*)
EndAnnounced == worker = "done" /\ listening => final # "none"

(* AlsaCapture::stop and ArecordCapture::stop return, whatever the device    *)
(* is doing: the thread notices the flag or the end of the pipe.             *)
StopJoins == client = "joining" ~> client = "stopped"
==============================================================================
