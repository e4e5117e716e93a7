--------------------------- MODULE MatroskaWriter ---------------------------
(***************************************************************************)
(* MatroskaWriter (handycam-matroska) over the BufWriter and the file      *)
(* run_capture gives it.  A method is a list of calls on the BufWriter     *)
(* (external, std); these copy into its buffer or hand bytes to the kernel *)
(* (external), which may take a part, refuse, or survive the program: what *)
(* is in `disk` stays when the program is killed, what is in `buffer` does *)
(* not.  Bytes written over old ones are taken whole or not at all.        *)
(***************************************************************************)
EXTENDS Ebml, JpegFrame, MatroskaReader

CONSTANTS Captures,    \* the event sequences a capture may come to write
          Capacity,    \* of BufWriter
          MaxFlushes   \* bound: updates of the duration before the last one

AudioFormat == "s16le"   \* what pcm_s16le(16000, 2) gave the writer
SampleBytes == 4         \* channels times bytes per sample

Events == [track : {"video"}, pts_us : Nat, duration_us : Nat,
           record : Seq(0 .. 255)]
          \cup [track : {"audio"}, pts_us : Nat, duration_us : Nat,
                format : {AudioFormat, "other"}, sample_frames : Nat,
                pcm : Seq(0 .. 255)]

VARIABLES phase,      \* "new", "open", "drop" (BufWriter::drop), "exit"
          calls,      \* calls on the BufWriter left of the method under way
          end,        \* the end of the file write_duration remembers
          buffer, disk, position,
          maximum_end_us, flushes,
          written,    \* events given to the writer
          result

vars == << phase, calls, end, buffer, disk, position, maximum_end_us,
           flushes, written, result >>

fileVars == << end, buffer, disk, position >>
clientVars == << maximum_end_us, flushes, written, result >>

-----------------------------------------------------------------------------
(* What is written.                                                         *)

VideoTrack == 1
AudioTrack == 2

EbmlId == \h1a45dfa3
SegmentId == \h18538067
InfoId == \h1549a966
TracksId == \h1654ae6b
ClusterId == \h1f43b675

EbmlHeader ==
  UintElement(\h4286, 1) \o UintElement(\h42f7, 1) \o UintElement(\h42f2, 4)
  \o UintElement(\h42f3, 8) \o StringElement(\h4282, "matroska")
  \o UintElement(\h4287, 4) \o UintElement(\h4285, 2)

InfoBeforeDuration == UintElement(\h2ad7b1, 1000000)

Info == InfoBeforeDuration \o FloatElement(\h4489, 0)
        \o StringElement(\h4d80, "handycam") \o StringElement(\h5741, "handycam")

VideoEntry ==
  UintElement(\hd7, VideoTrack) \o UintElement(\h73c5, VideoTrack)
  \o UintElement(\h83, 1) \o StringElement(\h86, "V_MJPEG")
  \o UintElement(\h23e383, 40000000)
  \o Element(\he0, UintElement(\hb0, 320) \o UintElement(\hba, 240))

AudioEntry ==
  UintElement(\hd7, AudioTrack) \o UintElement(\h73c5, AudioTrack)
  \o UintElement(\h83, 2) \o StringElement(\h86, "A_PCM_INT_LIT")
  \o Element(\he1, FloatElement(\hb5, 16000000) \o UintElement(\h9f, 2)
                   \o UintElement(\h6264, 16))

TrackEntries == Element(\hae, VideoEntry) \o Element(\hae, AudioEntry)

UnknownSize == << 1, 255, 255, 255, 255, 255, 255, 255 >>

BeforeInfo == Element(EbmlId, EbmlHeader) \o WriteId(SegmentId)
              \o UnknownSize

(* duration_offset, counted from 0. *)
DurationOffset ==
  Len(BeforeInfo) + 4 + SizeWidth(Len(Info)) + Len(InfoBeforeDuration) + 3

Cluster(pts_ms, track, data) ==
  UintElement(\he7, pts_ms)
  \o Element(\ha3, << 128 + track, 0, 0, 128 >> \o data)

-----------------------------------------------------------------------------
(* The calls of each method.  stream_position seeks to where the file is,   *)
(* and every seek empties the buffer first.                                 *)

WriteAll(bytes) == [op |-> "write_all", bytes |-> bytes, direct |-> FALSE]
Seek(to) == [op |-> "seek", to |-> to]
Flush == [op |-> "flush"]
Return(pts_end) == [op |-> "return", end |-> pts_end]

ElementCalls(id, payload) ==
  << WriteAll(WriteId(id)), WriteAll(WriteSize(Len(payload))),
     WriteAll(payload) >>

(* The EBML header, the segment, its Info and its tracks. *)
NewCalls ==
  << WriteAll(WriteId(EbmlId)), WriteAll(WriteSize(Len(EbmlHeader))),
     WriteAll(EbmlHeader),
     WriteAll(WriteId(SegmentId)), WriteAll(UnknownSize), Seek("current"),
     WriteAll(WriteId(InfoId)), WriteAll(WriteSize(Len(Info))), WriteAll(Info),
     WriteAll(WriteId(TracksId)), WriteAll(WriteSize(Len(TrackEntries))),
     WriteAll(TrackEntries), Return(0) >>

TrackOf(event) == IF event.track = "video" THEN VideoTrack ELSE AudioTrack

DataOf(event) == IF event.track = "video" THEN ReconstructJpeg(event.record)
                 ELSE event.pcm

EndOf(event) == event.pts_us + event.duration_us

(* Data of an element that MaxWidth bytes can size, its headers included. *)
MaxData == 268435392

MaxPts == 2147483647   \* bound: milliseconds in four bytes, u64 in the code

ASSUME WriterAssumption ==
  /\ Captures \subseteq Seq(Events)
  /\ \A c \in Captures : \A i \in DOMAIN c :
       /\ DataOf(c[i]) \in Seq(Nat) /\ Len(DataOf(c[i])) <= MaxData
       /\ c[i].pts_us \div 1000 <= MaxPts
  /\ Capacity \in Nat \ {0} /\ MaxFlushes \in Nat

EventCalls(event) ==
  ElementCalls(ClusterId, Cluster(event.pts_us \div 1000, TrackOf(event),
                                  DataOf(event)))
  \o << Return(EndOf(event)) >>

FlushCalls ==
  << Seek("end"), Seek("duration"), WriteAll(F64(maximum_end_us)),
     Seek("remembered"), Flush, Return(0) >>

(* write_audio refuses a chunk of another format or of a wrong length. *)
Acceptable(event) ==
  event.track = "audio" =>
    /\ event.format = AudioFormat
    /\ Len(event.pcm) = event.sample_frames * SampleBytes

-----------------------------------------------------------------------------
Init == /\ phase = "new"
        /\ calls = NewCalls
        /\ end = 0 /\ buffer = << >> /\ disk = << >> /\ position = 0
        /\ maximum_end_us = 0 /\ flushes = 0 /\ written = << >>
        /\ result = "none"

(* run_capture, as the writer sees it. *)

Idle == phase = "open" /\ calls = << >>

(* The events that may come next. *)
Upcoming == {c[Len(written) + 1] : c \in {d \in Captures :
                                    IsStrictPrefix(written, d)}}

WriteEvent ==
  /\ Idle /\ result = "none"
  /\ \E event \in Upcoming : /\ Acceptable(event)
                             /\ calls' = EventCalls(event)
                             /\ written' = Append(written, event)
  /\ UNCHANGED << phase, fileVars, maximum_end_us, flushes, result >>

LeaveWith(value) == phase' = "drop" /\ calls' = << >> /\ result' = value

RefuseEvent ==
  /\ Idle /\ result = "none"
  /\ \E event \in Upcoming : ~Acceptable(event)
  /\ LeaveWith("Err")
  /\ UNCHANGED << fileVars, maximum_end_us, flushes, written >>

PeriodicFlush ==
  /\ Idle /\ result = "none" /\ flushes < MaxFlushes
  /\ calls' = FlushCalls /\ flushes' = flushes + 1
  /\ UNCHANGED << phase, fileVars, maximum_end_us, written, result >>

(* A good end, which a signal may bring at any time: flush, then Ok. *)
FinalFlush ==
  /\ Idle /\ result = "none"
  /\ calls' = FlushCalls /\ result' = "finalizing"
  /\ UNCHANGED << phase, fileVars, maximum_end_us, flushes, written >>

ReturnOk ==
  /\ Idle /\ result = "finalizing"
  /\ LeaveWith("Ok")
  /\ UNCHANGED << fileVars, maximum_end_us, flushes, written >>

(* Another part of the capture fails: no flush. *)
ReturnErr ==
  /\ Idle /\ result = "none"
  /\ LeaveWith("Err")
  /\ UNCHANGED << fileVars, maximum_end_us, flushes, written >>

-----------------------------------------------------------------------------
(* BufWriter.                                                               *)

Call == Head(calls)

(* write_all copies what fits and is smaller than the buffer itself. *)
Copies == /\ calls # << >> /\ Call.op = "write_all" /\ ~Call.direct
          /\ Len(Call.bytes) < Capacity
          /\ Len(buffer) + Len(Call.bytes) <= Capacity

Copy == /\ Copies
        /\ buffer' = buffer \o Call.bytes
        /\ calls' = Tail(calls)
        /\ UNCHANGED << phase, end, disk, position, clientVars >>

(* flush_buf: by a seek, a flush, a write that does not fit, and the drop. *)
Drains == /\ buffer # << >>
          /\ \/ phase = "drop"
             \/ calls # << >> /\ Call.op # "return" /\ ~Copies

Directs == /\ calls # << >> /\ Call.op = "write_all" /\ buffer = << >>
           /\ Call.direct \/ Len(Call.bytes) >= Capacity

(* What the kernel takes of n bytes: a part only where the file grows. *)
Taken(n) == IF position < Len(disk) THEN {n} ELSE {n, (n + 1) \div 2}

(* The file with these bytes at the position; a hole reads as zeros. *)
Overlaid(bytes) ==
  SubSeq(disk, 1, Min({position, Len(disk)}))
  \o [i \in 1 .. position - Len(disk) |-> 0] \o bytes
  \o SubSeq(disk, position + Len(bytes) + 1, Len(disk))

Store(bytes) == disk' = Overlaid(bytes) /\ position' = position + Len(bytes)

Drain ==
  /\ Drains
  /\ \E k \in Taken(Len(buffer)) :
       /\ Store(SubSeq(buffer, 1, k))
       /\ buffer' = SubSeq(buffer, k + 1, Len(buffer))
  /\ UNCHANGED << phase, calls, end, clientVars >>

(* write_all goes on with what the kernel did not take. *)
Rest(bytes, k) == [op |-> "write_all", bytes |-> SubSeq(bytes, k + 1, Len(bytes)),
                   direct |-> TRUE]

Direct ==
  /\ Directs
  /\ \E k \in Taken(Len(Call.bytes)) :
       /\ Store(SubSeq(Call.bytes, 1, k))
       /\ calls' = IF k = Len(Call.bytes) THEN Tail(calls)
                   ELSE << Rest(Call.bytes, k) >> \o Tail(calls)
  /\ UNCHANGED << phase, end, buffer, clientVars >>

(* Faulty variant: the capture goes on after a write that failed. *)
WriteFailsIgnored ==
  /\ phase # "drop"
  /\ Drains \/ Directs
  /\ calls' = << >> /\ phase' = "open"
  /\ UNCHANGED << fileVars, clientVars >>

(* The kernel refuses: every caller returns at once. *)
WriteFails ==
  /\ phase # "drop"
  /\ Drains \/ Directs
  /\ LeaveWith("Err")
  /\ UNCHANGED << fileVars, maximum_end_us, flushes, written >>

SeekDone ==
  /\ calls # << >> /\ Call.op = "seek" /\ buffer = << >>
  /\ end' = IF Call.to = "end" THEN Len(disk) ELSE end
  /\ position' = CASE Call.to = "end" -> Len(disk)
                   [] Call.to = "duration" -> DurationOffset
                   [] Call.to = "remembered" -> end
                   [] Call.to = "current" -> position
  /\ calls' = Tail(calls)
  /\ UNCHANGED << phase, buffer, disk, clientVars >>

FlushDone ==
  /\ calls # << >> /\ Call.op = "flush" /\ buffer = << >>
  /\ calls' = Tail(calls)
  /\ UNCHANGED << phase, fileVars, clientVars >>

(* The method returns Ok. *)
MethodReturns ==
  /\ calls # << >> /\ Call.op = "return"
  /\ maximum_end_us' = IF Call.end > maximum_end_us THEN Call.end
                       ELSE maximum_end_us
  /\ calls' = << >> /\ phase' = "open"
  /\ UNCHANGED << fileVars, flushes, written, result >>

(* The drop writes what is left; a failure is ignored. *)
Dropped == /\ phase = "drop"
           /\ phase' = "exit"
           /\ UNCHANGED << calls, fileVars, clientVars >>

(* SIGKILL, or a panic that aborts: memory is gone, the file stays. *)
Kill == /\ phase # "exit"
        /\ phase' = "exit" /\ result' = "killed"
        /\ calls' = << >> /\ buffer' = << >> /\ end' = 0 /\ position' = 0
        /\ maximum_end_us' = 0
        /\ UNCHANGED << disk, flushes, written >>

Finished == phase = "exit" /\ UNCHANGED vars

Client == WriteEvent \/ RefuseEvent \/ PeriodicFlush \/ FinalFlush \/ ReturnOk
          \/ ReturnErr

File == Copy \/ Drain \/ Direct \/ WriteFails \/ SeekDone \/ FlushDone
        \/ MethodReturns \/ Dropped

Next == Client \/ File \/ Kill \/ Finished

Spec == Init /\ [][Next]_vars

-----------------------------------------------------------------------------
(* lib.rs, docs/av-sync.md: the file is streamed.  At every moment, also     *)
(* after a kill or a full disk, it reads as a recording that RecordingContract *)
(* allows.                                                                   *)
Recording ==
  INSTANCE RecordingContract WITH
    Entries <- UNION {ToSet(c) : c \in Captures},
    View <- LAMBDA e : [track |-> TrackOf(e), pts |-> e.pts_us \div 1000,
                        data |-> DataOf(e)],
    EndOf <- EndOf,
    written <- written,
    readable <- Blocks[disk],
    duration <- InfoDuration[disk],
    complete <- phase = "exit" /\ result = "Ok"

RecordingSpec == Recording!Spec

(* write_duration, run_capture: through every failure and every order of     *)
(* flushes and clusters, no byte that reached the file changes but the       *)
(* eight of the Duration.                                                    *)
OnlyDurationRewritten ==
  [][/\ Len(disk') >= Len(disk)
     /\ \A i \in 1 .. Len(disk) :
          \/ disk'[i] = disk[i]
          \/ i \in DurationOffset + 1 .. DurationOffset + 8]_vars

(* A decoder: what is in the scan from start on up to EOI, its stuffing     *)
(* taken out.                                                               *)
Unstuffed(scan, start) ==
  LET from[i \in 1 .. Len(scan) + 2] ==
        IF i >= Len(scan) \/ SubSeq(scan, i, i + 1) = EOI THEN << >>
        ELSE << scan[i] >> \o from[i + IF scan[i] = 255 THEN 2 ELSE 1]
  IN  from[start]

EntropyOf(jpeg) == Unstuffed(SubSeq(jpeg, Len(JpegHeader) + 1, Len(jpeg)), 1)

(* reconstruct_jpeg: a decoder of the recorded picture finds the scan the    *)
(* camera sent, to the last byte that is not padding, whatever bytes it has. *)
PictureSurvives ==
  LET blocks == Blocks[disk]
  IN  \A i \in 1 .. Len(blocks) :
        blocks[i].track = VideoTrack =>
          /\ i <= Len(written) /\ written[i].track = "video"
          /\ EntropyOf(blocks[i].data) = StripPadding(written[i].record)
=============================================================================
