# handycam-rs in TLA+

handycam-rs drives a Sony DCR-HC24 camcorder over USB: it replays an
initialization plan, reads two isochronous endpoints, cuts their bytes into
compressed records, turns each record into a JPEG and hands the frames to
stdout or a V4L2 loopback device, or, with sound from ALSA, to a Matroska
file.  This directory models the parts of it whose correctness depends on
order, failure or time, checks them with TLC and proves the central ones with
TLAPS.  Paths below are relative to the repository.

## Inventory

| Part | State it keeps | Operations | Talks to |
| --- | --- | --- | --- |
| Stream decoder, `crates/handycam-core/src/stream.rs` | pending boundary flag, open record, last timestamp, next sequence, discard-first flag | `push_packet`, `reset` | fed by the event loops; calls `reconstruct_jpeg` |
| USB session, `crates/handycam-libusb/src/transport.rs` | transfer slots with their `submitted` flags, shared `running` flag, event channel, claimed interface and its alternate setting | `open_with_init_strategy`, transfer callback, `poll`, `stop`, `Drop` | libusb and the kernel; events to the event loops |
| Output worker, `crates/handycam-cli/src/sink.rs` | one thread, its frame `Receiver`, its status `Sender`, the output | `run_stdout`, `run_v4l2` | a one-frame channel in, a status channel out |
| Stream command, `main.rs` `run_stream`, `run_session` | the session, the retry delay, the counters | open, retry, poll, decode, send, stop, join | all of the above, signals |
| Replay commands, `main.rs` `run_replay`, `run_replay_capture` | position in the input, last sink error | offer or send a frame, join | output worker, signals |
| A/V synchronizer, `crates/handycam-core/src/sync.rs` | one clock anchor and one expected position per track | `video_timing`, `audio_timing` | called by the capture loop |
| Capture command, `main.rs` `run_capture`, `run_capture_session` | the turn's batch of media events, the synchronizer, the writer | drain audio, poll video, sort, write, finalize | USB session, audio worker, Matroska writer, signals |
| Audio workers, `crates/handycam-linux-audio` | sample clock, discontinuity flag, stop flag | ALSA read loop, `arecord` fallback, stop | chunk channel to the capture loop |
| Matroska writer, `crates/handycam-matroska` | largest end time, offset of the duration, the `BufWriter` and its file position | write video, write audio, flush | called by the capture loop; a file |
| Initialization, `init.rs`, `transport.rs` | the parsed plan | parse, override the quality, replay with one of three strategies, poll for acknowledgement | control requests |
| Transport commands, `control.rs`, `transport.rs` | the sequence number kept by the camera | play, pause, stop, wind | control requests |
| JPEG and YUYV, `jpeg.rs` | none | reconstruct, decode, convert | pure functions |

What makes the program hard to test:

* the boundary flag and the record it announces arrive on different
  endpoints, in no fixed order; packets are lost, with an error status or
  without; the camera's clock has 11 bits;
* the kernel completes transfers while `stop` cancels and frees them, a
  callback may fail to resubmit or panic, and the camera may vanish at any
  point, opening included;
* the worker and the main thread watch each other through two channels that
  close at different moments;
* reconnection puts sessions, signals and a dying output in any order;
* the two tracks of a capture have clocks of their own, which resets,
  overruns and a camera clock that stands still disturb separately, and its
  loop has a dozen ways to fail with two devices running and a file open;
* the Matroska file is overwritten in its header while it grows, through a
  buffer, and may be all that is left after a kill or on a full disk.

Correct means: a frame is one camera record with its true time; no transfer is
freed while libusb holds it and the interface is always given back; an accepted
frame is written, in order; a signal, a closed output or an unplugged camera
ends what it should end; sound and picture keep their offset; a loss is
reported; the file reads, at every moment, as the beginning of the recording;
a plan is refused as a whole or played as a whole.  `PROJECT.json` lists every
hazard at its line with the properties that would catch it.

## Modules

`StreamDecoder` holds the decoder as pure operators on a record: a packet is
its endpoint, whether it starts with the marker, its timestamp, its length,
whether it has a nonzero byte, and a history tag (record and part) that only
properties look at.  `PushPacket` returns the new decoder, an error and
possibly a frame, as the code's `Result<Option<_>, _>` does.

`CameraStream` puts the decoder under `run_session`'s event handlers and a
camera (external).  What is in flight is two cursors, one for each endpoint;
`Early` and `Late` bound how far they drift apart.  Delivery, loss with an
error status and loss without one are actions.  A decode error or a packet
error resets the decoder, in the same action, as the handler does.  `origin`,
`headers`, `silent` and the packet tags are history for the properties.

`SessionContract` is the promise of a session about the memory it lends to
libusb: it lends only while it is starting or streaming, gets pieces back in
any order, and is closed with none outstanding.  `UsbSession` is the session
itself: `pc` is the position of the one program thread, `transfer` libusb's
view of each transfer, `submitted` the code's.  `HandleTransfer` is the whole
callback: classify, report, resubmit or retire.  Opening claims the interface,
selects alt 5 in the middle of the replay (`SelectAlternate`; alt 7, which the
plan selects just before it, is undone in the same way and not told apart), may
fail before or after that, and then submits.  `Contract` is the refinement mapping.

`OutputSink` is the worker and both channels.  `Return` drops the `Receiver`
and `ReportStatus` sends the final status, as separate steps, because other
threads can run between them.  `StreamSupervisor` and `ReplayDriver` extend it
with the two kinds of main thread; command-line options are chosen in `Init`.
In the supervisor a whole USB session is the port it was opened on, or `"gone"`
once that device was unplugged, and a decoded frame is its number: the session's
inside is `UsbSession`, the frame's `CameraStream`.
Cameras come and go at every port of `Ports`, and `open` answers with what
`select_device` finds, with an error of the bus, or with a refusal.
`LoadReplayFrames` looks at every file before the worker starts.

`AvSynchronizer` holds the timeline arithmetic as operators; `video_timing` and
`audio_timing` are the same function of the track.  `CaptureDriver` is
`run_capture` with a clock: the camera, the audio worker and the file are opened
in turn, headers and periods arrive up to `MaxJitter` late or not at all,
resets and overruns happen at any time.  `Worlds` keeps lateness and loss in
different behaviours of one run, which is what keeps it small.  The `true`
fields are history: when the content was really recorded.

`Ebml` is the encoding, `JpegFrame` and `ColorConversion` are the pure parts
of `jpeg.rs`.  `MatroskaWriter` is the writer over its `BufWriter`: a method is a
list of calls, and each call copies, drains, seeks or goes straight to a file
that may take a part of it.  `Kill` leaves only `disk`.  `MatroskaReader` is a
reader that trusts nothing but the bytes; through it `MatroskaWriter` is shown to
implement `RecordingContract`, the promise of a growing file: what is found is
a prefix of what was written, it never shrinks, and the duration was true when
everything up to it was in the file.  `MCMatroskaWriter` gives the captures.

`AudioWorker` is the thread of `AlsaCapture` or of `ArecordCapture`, chosen in
`Init`, its device and its owner.  A sample frame is named by the time it was
recorded, so a chunk can be compared with its position, its flag and its
observed start.  The outer wait, the partial reads, the recovery, the status
query and the send are steps of their own, since sound arrives and the owner
stops or hangs up between them.

`Control` is the command word, its encoder and the scan tokens; `InitPlan` the
parser of plans and the quality override.  `InitReplay` is `load_plan` and
`replay_initialization` with its three strategies, against a camera (external)
that echoes a command's number when it gets to it, and a second process that
sends a transport command in its two requests.  `accepted`, `echoed` and `sent`
are history.  `MCInitReplay` gives it the texts of plans, good ones and bad
ones.

`UsbSessionProofs`, `CameraStreamProofs`, `StreamSupervisorProofs`,
`ReplayDriverProofs`, `CaptureDriverProofs`, `AudioWorkerProofs`,
`InitReplayProofs` and `MediaProofs` hold the theorems.

Definitions introduced by the comment "Faulty variant" are deliberately wrong
forms of the definition after them.  `PROJECT.json` pairs each property with the
variant that must break it; no specification uses them.

## Runs

Run `tlc -config X.cfg M`.

| Run | Module, config | What it shows |
| --- | --- | --- |
| `camera_ordered` | `CameraStream`, `CameraOrdered` | flags are up to two packets early, never late; entropy may look like a header while the next flag has not come; errors reset.  Every frame is exactly one record, its time is exact across wraps, frames are chained, and a frame appears by the fourth header after a reset |
| `camera_skewed` | `CameraStream`, `CameraSkewed` | flags may be late and packets may vanish silently.  Records merge, but a frame is a run of whole records unless something vanished, times are right up to turns of the clock, and the size limit holds |
| `usb_session` | `UsbSession` | memory safety of the pool, the interface never released on alt 5 and always released, also when the replay fails half-way, no transfer silently out of rotation, no polling of a dead session, `stop` returns, an unplugged camera ends the session, and the session implements `SessionContract` |
| `stream_supervisor` | `StreamSupervisor` | with and without `--no-reconnect` and `--usb-path`, two ports: one session at a time, frames in order, none lost that was accepted, a closed pipe is no error, a signal or the end of the output ends the program, an absent camera does not, and the wanted camera, once it stays, has a session again, through lost sessions, failed openings and a second camera |
| `replay` | `ReplayDriver`, `Replay` | both replay commands report every output failure and every bad input, write what they did not skip, in order, and end |
| `capture` | `CaptureDriver`, `Capture` | jitter and batching never move sound against picture by more than the jitter of the first frame until a break is reported; each gap is reported, by resets, overruns or both; a failure of any step of opening, loop or exit leaves both devices stopped; a capture that succeeds was asked to stop and has its duration; a signal ends it |
| `audio_worker` | `AudioWorker` | a chunk is one unbroken period and, on a running ALSA device, says when its first frame was recorded; a break is flagged on the chunk after it; a thread that ends says so while anyone listens; `stop` joins |
| `init_replay` | `MCInitReplay`, `InitReplay` | a wait ends on the echo of its own command, with exactly two exceptions: a concurrent transport command of the same number, and a stale byte at the first wait; a replay that succeeds made all the plan's writes once and in order, with the quality asked for; a plan with one bad row, or a quality it cannot take, changes nothing in the camera |
| `media_file` | `MCMatroskaWriter`, `MediaFile` | through short and refused writes, updates of the duration and a kill at any call, the file implements `RecordingContract`; no byte that reached it changes but the duration's eight; the entropy of a picture is what the camera sent |
| `sink_failure` | `StreamSupervisor`, `SinkFailure` | expected violation, finding 1 |
| `capture_reset` | `CaptureDriver`, `CaptureReset` | expected violation, finding 2 |
| `capture_frozen` | `CaptureDriver`, `CaptureFrozen` | expected violation, finding 3 |

### Findings

1. `sink_failure`.  The worker drops its `Receiver` before it sends
   `SinkStatus::Failed`.  A frame that arrives between the two makes
   `run_session` return `SinkClosed`, `run_stream` turns that into success and
   never reads the status again.  `handycam stream` exits 0 although its output
   failed, and `Restart=on-failure` of `contrib/handycam.service` does nothing.
   `run_replay` reads the statuses after the join and has no such window
   (`OutputFailureReported`).
2. `capture_reset`.  A decoder reset restarts the unwrapped camera time at 0, but
   the synchronizer keeps the anchor of the first frame: the PTS of the picture
   jump back to the start of the capture.
3. `capture_frozen`.  `docs/protocol-research-status.md` of the reverse
   engineering notes (lines 128 to 136) wants the camera's timestamp as a health
   check and not as the sole presentation clock, because a trace holds seven
   seconds of good records with a frozen one.  `video_timing` computes every
   PTS from that timestamp alone: frames of duration 0 pile up at one position,
   which is the expected one, and nothing is reported.  The run allows sound and
   picture one period of distance (`MaxJitter`, with no delivery late) and a
   clock that runs up to the first frame, so a single odd frame is not enough: in
   the trace the first picture is on time, the next three share one PTS, and the
   last of them is two periods behind the sound.

Two things the model shows that no document contradicts, and that no property
therefore claims: after an overrun all later sound is early by what was lost,
flagged once (`LossIsReported`) and not corrected; and a capture whose poll
fails just after the signal returns success without having looked whether it
captured anything.

### Bounds, and why they are enough

* `CameraStream`: records of three packets have a first, a middle and a last.
  Five to seven records let a reset, a forgotten flag, a discarded record and two
  complete frames follow each other.  Clock steps of 0, 40, 1100 and 2047 ms
  reach no advance, the usual one, a wrap every second record, and a wrap at
  every record.  `MaxRecordSize` lets a merged record cross the limit.
* `UsbSession`: with three transfers one can be done, one in flight and one
  waiting for its callback, at every index of the submission and cancellation
  loops.  Sessions are opened again and again; nothing else is bounded.
* `StreamSupervisor`: four frames fill the worker's hand and the channel, force
  a drop, and leave one for the next session.  Two ports make a choice
  ambiguous, or put a foreign camera beside the selected one.  Reconnections are
  unbounded.
* `ReplayDriver`: up to four items of input, each of three kinds in any order,
  and six frames offered (`MaxItems`, `MaxFrames`), so that a repeating replay
  wraps; then it waits for a signal or the worker.
* `CaptureDriver`: time runs to 200 ms, that is five periods of 40 ms, in steps of
  40 ms (`Quantum`), which is also the jitter; enough for a reset with its two
  lost records, or an overrun, before a later frame of each track.  400 ms in
  the violation runs.  `MaxQueued` bounds the audio channel, which is unbounded
  in the code: the loop drains it every turn.  The audio delay is 40 ms; a
  negative one, which is clamped at 0, is not checked.
* `AudioWorker`: a period of 3 frames can be read in one, two or three pieces; a
  ring of 7 holds two periods and a rest, and 17 units of time let it overrun
  twice.  At the end of time the device stalls, and `StopJoins` covers that too.
* `InitReplay`: the good plan has the shape of `record-mode-init.tsv`: a scan that
  is no startup command, a command that is no scan, startup scans with two, one
  and no status reads, two scale writes.  Each bad plan begins well and has one
  fault.  A wait reads the status once or twice (`MaxPolls`); two transport
  commands (`MaxTransports`) can overwrite the mailbox before and after an echo.
* `MatroskaWriter`: a buffer of 64 bytes (`Capacity`) is smaller than some elements
  and larger than others, as the 8192 of `BufWriter` are: writes are copied,
  drain it, or pass it by.  A JPEG header of 117 bytes instead of 623
  (`HeaderLength`) puts blocks and clusters on both sides of the one-byte limit of
  EBML sizes.  Sizes have up to four bytes (`MaxWidth`), which is 256 MB, and times
  in milliseconds four (`MaxPts`), which is 24 days; one
  periodic update (`MaxFlushes`) comes before, between or after two or three
  events.  The kernel takes all or half of what makes the file grow.

### Fairness

* `UsbSession`: the thread never rests inside `open`, `poll` or `stop` (weak
  fairness).  The kernel completes what was cancelled or has lost its device
  (weak fairness of `MustComplete`; nothing is assumed of other transfers).
  `handle_events` runs the callbacks of completed transfers, and the program
  keeps calling it: a callback that can run again and again does run (strong
  fairness, because it can only run inside a call).
* `StreamSupervisor`: the main thread runs; a batch of events is finite; the
  delay of a retry passes.  The worker runs, which assumes a reader that reads,
  closes or fails: a reader that blocks for ever blocks the join as well.  An
  open that is tried for ever on an attached camera succeeds some time (strong
  fairness of `Opened`), and a session whose device was unplugged ends (strong
  fairness of `CameraEnds` then), which `UnplugEndsSession` shows of
  `UsbSession`; only `Reconnects` needs these two.
  `Reconnects` is stated over the ports and `--usb-path` and not over
  `select_device`.  It speaks of a program that nobody stops and whose output
  works (`Undisturbed`), and excuses a camera that refuses to be opened and two
  cameras with nothing to choose by, both of which end the program.  An exit
  at a disconnection, at an absent camera or at an error of the bus is no excuse.
* `ReplayDriver`: main thread and worker run.
* `CaptureDriver`: the opening and the loop run; `poll` has a 10 ms timeout.
  Nothing is assumed of the camera or of the audio device.
* `AudioWorker`: the thread runs, since its waits time out after 100 ms and a pipe
  that closed is readable; the join returns when it ended.  The device may stall,
  and no failure is assumed to come.  `InitReplay` and `MatroskaWriter` have no
  liveness.

## Proofs

Run `tlapm M.tla` for each of the eight modules of proofs (`MediaProofs` takes
about ten minutes, the others less).  Every safety property of the passing
runs is a theorem; what is only model-checked is at the end.

`UsbSessionProofs`, for every pool size `N > 0`:

* `Invariance`: `IInv` is inductive.  The safety properties are not: they
  speak of the moment of freeing, and what makes them true is spread over the
  whole life of the pool.  The parts of `IInv` are: what libusb holds is marked
  submitted or is the one transfer between submission and store (`Tracked`);
  nothing is outstanding before the loop reaches it nor after the reap loop
  (`Filling`, `Cleared`, `Staged`); the interface is claimed, and on alt 5, exactly
  between the right steps, and while the replay runs it may be on either alt
  (`Interface`); a lowered `running` flag has an ending
  event in the channel (`Reported`); and a running pool is whole (`Pool`).
* `FreeSafety`, `PollSafety`, `LivePolling`, `InterfaceSafety`: the invariants of
  the run.
* `Implements`: `Spec => ContractSpec`; a callback is a return or a stutter,
  opening lends one piece at a time, leaving waits for the last.

Assumption: `NAssumption`.

`CameraStreamProofs`, for every record length, packet size, clock and pattern of
loss, with no bound on the number of records:

* `OnPacketCases`: a packet has one of five outcomes for the decoder (forgotten,
  ignored, appended, record restarted, frame emitted).  The invariants are proved
  by these five cases rather than by the paths of the code.
* `StreamSafety`, `RecordSafety`: type correctness, `RecordBounded` and the action
  property `FrameChain`, from `StreamInv`, which ties the decoder's `next_sequence`
  and running time to the last frame emitted (`Chained`).  No hypothesis.
* `TimestampSafety`: `TimestampCongruent`, when entropy never looks like a
  header.  The invariant `Clocked` says that the open record's time agrees
  with the camera's up to whole turns; a step adds a difference masked to 11 bits,
  which is congruent to the true one (`DeltaCongruent`).
* `WholeRecordsSafety`: `FrameIsWholeRecords`, under the same hypothesis and for
  any skew.  `Gathered` says that the open record is a run of consecutive packets
  that starts at a header and ends right before the packet the camera sends
  next.
* `OneRecordSafety`, `RecoverySafety`: `FrameIsOneRecord` and
  `RecoversInFourHeaders` for a camera in the regime of `camera_ordered`
  (`Ordered`: no late flag, no silent loss, false markers only while the next
  flag has not come).  `InStep` says that a pending boundary is always the next
  header's, never one an earlier header left behind, and that the decoder forgets
  one only by a reset; without it a body could be taken for a header;
  `Assembled` that the open record is
  the beginning of one camera record; `Recovering` bounds the headers that can
  pass in each state of the warm-up.
* `ExactSafety`: `TimestampExact`, when moreover records are less than one turn of
  the clock apart.  That hypothesis cannot go: 2048 ticks between two records
  look like none.

Assumptions: `DecoderAssumption`, `StreamAssumption`, and the hypotheses named,
which are written in the theorems.

`StreamSupervisorProofs`, for every set of ports and any number of frames:

* `FrameSafety`, `SessionSafety`, `PipeSafety`, from `SupervisorInv`.  What an
  accepted frame's fate depends on is where it is: written, in the worker's hand
  or in the channel.  `Ordered` says that frames cannot overtake each other on
  that way and `Counted` that their number is the counter's, as long as the
  receiver lives or has emptied the channel; `HungUp` that the sender is dropped
  by the last steps only.  `Waiting` and `Running` say which status can be in
  the channel while the main thread is where, without which the last one could
  be taken for another; `Blamed` that only an output that failed is blamed.
* `SingleSessionSafety`: the action property `SingleSession`.  `LastSession` says
  that with `--no-reconnect` the main thread is in one of its last four steps once
  a session ended, and that a lost camera is the result it carries out.

Assumption: `SupervisorAssumption`.

`ReplayDriverProofs`, for every input and any number of repetitions:

* `ReplaySafety`, `FailureSafety`: `ReplayComplete` and `OutputFailureReported`,
  from `ReplayInv`.  The worker's parts are those of the supervisor's; `Dense` adds
  that a raw capture leaves no hole; `Progress` ties the number of frames offered
  to the place in the input (`FramesUpTo`, a cardinality, so that no recursion over
  the input is needed); `Left` and `Verdict` that a loop left early has a reason
  and that the reason becomes the result.

Assumption: `ReplayAssumption`.

`CaptureDriverProofs`, for every step of the clock, jitter, length of the channel,
reset and overrun:

* `LossSafety`: `LossIsReported`, while the camera's clock runs (`~Freezes`).  An
  event goes from its source through the audio channel or `media_events` and the
  sort to the synchronizer.  `Chained` says that on each track what is waiting
  and what was written last form one chain, each event starting where the one
  before it ends or carrying the flag, up to the source's own pending flag;
  `Sorted` that the events of one track are waiting in the order of their times,
  observed ones included, so that the stable sort cannot swap two of them; `Warming`
  that a decoder that has not come out of its warm-up has the flag pending or has
  not produced a frame yet.  With a frozen clock the argument breaks: a record
  of length zero and the next one may be observed in one turn with the jitter
  the other way round, and the sort swaps them.
* `OffsetSafety`: `AvOffsetPreserved`, while the clock runs and the audio delay is
  not negative (a negative one is clamped at time 0, which moves the first
  sounds).  `OffsetInv` says that an event is observed within the jitter of its
  true time (`Observed`), that the anchor of a track keeps the difference of
  the first observation (`Steady`), and what that makes of the time written
  (`OnTime`).
* `StopSafety`, `FinalizeSafety`: `BothStopped` and `FinalizedOnSuccess`, with no
  hypothesis.

Assumption: `CaptureAssumption`.

`AudioWorkerProofs`, for every length of period and ring:

* `ChunkSafety`, `GapSafety`, `EndSafety`: `ChunkIsOnePeriod`, `GapReported` and
  `EndAnnounced`, from `AudioInv`.  `Recorded` says that nothing is read before it
  was recorded; `Filling` that the samples in hand are the last ones read, in
  order; `Following` that they begin where the chunk sent last ends, unless the
  flag is pending or the thread is on its way out after a period cut short.

Assumption: `AudioAssumption`.

`InitReplayProofs`, for every plan, quality, number of polls and of transport
commands:

* `AckSafety`: `AckIsReal`.  The inductive invariant follows a command from the
  plan to the mailbox (`MailboxInv`) and to the status byte (`EchoInv`), and says
  that a byte from before the replay equals the token of every wait that is
  over (`PassedInv`): with tokens that differ, only one wait can have ended on it.
* `TransportIsNoScan`: no word of the encoder is a scan command.
* `RefusedSafety`: `RefusedUntouched`.  Nothing is sent before the plan is loaded,
  and a loaded plan was parsed and overridden (`LoadedInv`).
* `PlanSafety`: `PlanFulfilled`.  The property compares two subsequences, the
  requests of the text and those sent, which the model computes by recursion.
  `SentInv` avoids it: there is an increasing enumeration of the places of the
  plan already passed that are requests, and what was sent is what stands
  there.  A step extends the enumeration by one.  The two enumerations of the
  text's requests that exist at the end are equal since an increasing one is
  determined by its set.

Assumptions: `PlanAssumption`, `TextsAssumption`.

`MediaProofs`:

* `RewriteSafety`: the action property `OnlyDurationRewritten`, for every capture
  and every capacity of the buffer.  A write appends as long as the file's
  position is its length, and the only seeks go to the Duration, to the end and
  to where the writer was.  `FileInv` follows these through each phase: while
  creating, the bytes on disk, in the buffer and still to be written by `new`
  (`Owed`) reach beyond the Duration, so that the header is in the file when an
  update first seeks to it; while updating, at most the eight bytes are in the
  buffer between the seek to the Duration and the seek away from it.
* `RecordingRefined`: `RecordingSpec`, the refinement of `RecordingContract`.  It
  needs to know what the bytes of the file are, in mid-write too.  `FileInv` is
  joined by `Content`: there is a sequence `out`, the recording as it is to become,
  laid out (`Laid`) as the header with the Duration that is in place and one
  cluster for each event of `written`, and
  - the file is a beginning of `out` (`Stored`); what is in the buffer comes
    next in `out`, and what the calls left of the method are still to write is
    the rest of it (`Ahead`, `Due`);
  - during an update all of `out` is in the file when the Duration is written
    over, and the eight bytes are those of the greatest end (`Renewing`); with
    them `out` becomes another sequence, which is laid out as well
    (`LaidRedone`);
  - the return that is left is the one that accounts for the last event
    (`Timely`), and after `Ok` the file is all of `out` (`Ending`).

  `out` exists and is no variable: the writer has no such sequence, it only never
  strays from it.  From `Content` the reader's part follows by `FileRead`.
* `FileRead`, `ClusterRead`: a beginning of such a recording, wherever it is cut
  (behind the header, once the Duration is not 0: no update comes earlier), is
  read as its header and exactly the clusters that are whole, each as the block it
  was written for.  An element that the end of the file cuts is none, and
  therefore nothing after it is.  The reader walks by the sizes it finds; that its
  recursion has a solution is itself a lemma (`Rightwards`, `PayloadsAre`), since
  every element ends after it begins.
* `PicturesSurvive`: `PictureSurvives`, from `Content` and `EntropyBack`: whatever
  the bytes of a record are, the decoder's walk over the reconstructed picture
  and the loop of `reconstruct_jpeg` are at corresponding places, from the last
  byte back to the first.
* `SizeRoundTrip`: every size below 256 MB is written in the fewest bytes, not in
  the reserved pattern, and reads back as itself.
* `ClampIsIdle`, `YuyvLimitedRange`, `GreyIsNeutral`: the colour arithmetic stays in
  the limited range without its clamps, and grey has no colour.

The inductions over files and records are by least counterexample
(`LeastNumber`, from the well-foundedness of `<` on the naturals), because the
library's induction theorems take an operator as a parameter, which the provers
cannot instantiate; the recursive functions of the model are unfolded by lemmas
that prove that they have a solution.

Assumption: `WriterAssumption`, that the data of one event stays below 256 MB
(`MaxData`) and its time below 24 days (`MaxPts`); a record is limited to far less
by the decoder and a chunk is one period.

TLC has checked the inductive invariants on small instances, those of the
runs: `IInv` of both modules that have one, `StreamInv`, `Clocked`, `OrderedInv`,
`Timed`, `Gathered`, `SupervisorInv`, `ReplayInv`, `LossInv`, `OffsetInv`, `AudioInv`
and `FileInv` (with a buffer of 5 and of 64 bytes).  `SentInv` has a quantifier
over all functions, and `Content` one over all sequences: they are proved only.

Only model-checked:

* all liveness (`StopReturns`, `UnplugEndsSession`, `SignalExits`, `SinkEndExits`,
  `Reconnects`, `AbsentCameraAwaited`, `ReplayEnds`, `SignalEndsCapture`,
  `StopJoins`): liveness under fairness and `ENABLED` are beyond the prover.

## Not modelled

* An entropy packet that begins like a header after the next record's flag came
  early is cut as a record: the decoder cannot tell.  `camera_ordered` excludes
  it (`FalseMarkers`), `StreamSafety` includes it.
* The characters of a plan: a field is a number or not one.  Plans that number
  two scans alike are played by the model, and `AckIsReal` says nothing of them
  (`ScansDistinct`).  The configuration of the PCM.  Of the replay `UsbSession` has
  the selection of alt 5 and a failure around it; its requests are `InitReplay`'s.
  A plan of `--init-plan` that selects no alternate setting is not in `UsbSession`.
  What `validate_descriptors` compares, and a
  libusb that cannot even be started, are refusals of `open` like others.
* The register tables and power values of `control.rs`: library data that no
  command of the program uses.
* An overrun between the last read of a period and its status query makes the
  chunk's observed start inexact; `ChunkIsOnePeriod` excludes it (`exact`).  An
  overrun that the 100 ms wait meets ends the thread with a failure
  (`AlsaOverruns`): only a read recovers, although `docs/av-sync.md` speaks of
  XRUN recovery in general.
* The JPEG decoder, a library, and the content of the JPEG header, of texts and
  of floating-point numbers, which are opaque bytes of the right length.
* Microseconds are milliseconds, and 64-bit saturation is out of reach.
* Argument parsing, logging, probing and statistics that are only logged.
* `reverse-engineering/`: offline scripts, a virtual-machine harness and the
  superseded C prototype.

## Plan

In order of importance:

1. Done: every part of the driver that keeps state or computes bytes, and a
   theorem for every safety property that a run checks.
2. An abstract specification of the frame path, a channel that loses only what
   it refused, which `StreamSupervisor` and `ReplayDriver` both implement, with the
   refinements proved.
3. `reverse-engineering/legacy/handycam_capture.c`: its transfer slots,
   callback, cancellation and output files, and that the `iso-packets.jsonl`,
   `ep81.bin` and `ep82.bin` it leaves, however it ends, are what
   `run_replay_capture` accepts.
