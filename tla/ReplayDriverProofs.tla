-------------------------- MODULE ReplayDriverProofs --------------------------
(***************************************************************************)
(* Proofs about the two replay commands: for an input of any length, any   *)
(* number of repetitions and every race of the worker with try_send, the   *)
(* end of the input and the signals, what is written is what was accepted, *)
(* in order, and a failed output makes the command fail.                   *)
(***************************************************************************)
EXTENDS ReplayDriver, SequenceTheorems, FiniteSetTheorems, TLAPS

Errors == {"Sink", "SinkStopped", "SinkPanicked", "Replay", "NoReplayFrames"}

TypeOK == /\ SinkTypeOK
          /\ mode \in {"jpegs", "capture"} /\ repeat \in BOOLEAN
          /\ input \in Seq(Items) /\ line \in 0 .. Len(input)
          /\ main \in {"load", "wait", "next", "send", "sleep", "drop", "join",
                       "exit"}
          /\ stopping \in BOOLEAN /\ sequence \in Nat /\ skipped \in Nat
          /\ sink_error \in {"none", "Sink", "SinkStopped"}
          /\ result \in Errors \cup {"none", "Ok"}

(* Frames move through the channel and the worker's hand to the output       *)
(* without overtaking each other.                                            *)
Ordered ==
  /\ \A i, j \in 1 .. Len(written) : i < j => written[i] < written[j]
  /\ \A i \in 1 .. Len(written) :
       /\ written[i] <= sequence
       /\ sink = "writing" => written[i] < held
       /\ channel # << >> => written[i] < channel[1]
  /\ sink = "writing" => /\ held <= sequence
                         /\ channel # << >> => held < channel[1]
  /\ channel # << >> => channel[1] <= sequence

InHand == IF sink = "writing" THEN 1 ELSE 0

(* Every frame that was not skipped is written, held or buffered, unless the *)
(* output ended by itself.                                                   *)
Counted ==
  ReceiverAlive \/ outcome = "EndOfFrames"
    => Len(written) + InHand + Len(channel) = sequence - skipped

(* A capture skips nothing. *)
Dense ==
  mode = "capture" =>
    /\ skipped = 0
    /\ \A i \in 1 .. Len(written) : written[i] = i
    /\ sink = "writing" => held = Len(written) + 1
    /\ channel # << >> => channel[1] = Len(written) + InHand + 1

HungUp == /\ ~sender => main \in {"join", "exit"}
          /\ outcome = "EndOfFrames" => ~sender
          /\ ReceiverAlive <=> outcome = "none"
          /\ ~ReceiverAlive => channel = << >>

(* Before the first status nothing was sent. *)
Waiting ==
  main \in {"load", "wait"} =>
    /\ main = "load" => sink = "starting"
    /\ sink \in {"starting", "receiving", "returned", "ended"}
    /\ outcome \in {"none", "Failed"}
    /\ statuses = IF sink = "receiving" THEN << "Ready" >>
                  ELSE IF sink = "ended" THEN << "Failed" >> ELSE << >>
    /\ channel = << >> /\ written = << >>
    /\ sequence = 0 /\ skipped = 0 /\ line = 0 /\ sink_error = "none"

(* Afterwards at most the final status is in the channel, and a failure that *)
(* was read is remembered.                                                   *)
Running ==
  main \notin {"load", "wait", "exit"} =>
    /\ sink # "starting"
    /\ sink # "ended" => statuses = << >>
    /\ sink = "ended" => statuses = << >> \/ statuses = << StatusOf(outcome) >>
    /\ sink = "ended" /\ statuses = << >> =>
         \/ outcome = "Panicked"
         \/ main \in {"drop", "join"} /\ (outcome = "Failed" => sink_error = "Sink")

(* The frames among the first n items. *)
FramesUpTo(n) == Cardinality({i \in 1 .. n : input[i] = "frame"})

(* How far the input has been read. *)
Progress ==
  /\ mode = "capture" => /\ main \notin {"load", "send", "sleep"}
                         /\ sequence = FramesUpTo(line)
                         /\ \A i \in 1 .. line : input[i] # "bad"
  /\ mode = "jpegs" => /\ main \notin {"load", "exit"} \/ result = "Ok"
                            => \A i \in 1 .. Len(input) : input[i] # "bad"
                       /\ ~repeat => sequence <= Frames
                       /\ main = "send" => sequence < Frames \/ repeat

(* Why the loop was left. *)
Left ==
  main \in {"drop", "join"} \/ (main = "exit" /\ result = "Ok") =>
    \/ outcome \in {"BrokenPipe", "Failed", "Panicked"}
    \/ mode = "capture" /\ line = Len(input)
    \/ mode = "jpegs" /\ (stopping \/ (~repeat /\ sequence = Frames))

Verdict == /\ main # "exit" <=> result = "none"
           /\ result = "Ok" => outcome \notin {"Failed", "Panicked", "none"}

ReplayInv == /\ TypeOK /\ Ordered /\ Counted /\ Dense /\ HungUp /\ Waiting
             /\ Running /\ Progress /\ Left /\ Verdict

-----------------------------------------------------------------------------
(* Sequences of at most one element. *)
LEMMA ShortSequences ==
  /\ \A x : /\ Len(<< x >>) = 1 /\ << x >> # << >> /\ << x >>[1] = x
           /\ Head(<< x >>) = x /\ Tail(<< x >>) = << >>
           /\ Append(<< >>, x) = << x >>
  /\ \A s \in Seq(Nat) : /\ s = << >> <=> Len(s) = 0
                         /\ Len(s) <= 1 /\ Len(s) # 1 => Len(s) = 0
                         /\ Len(s) = 1 => Head(s) = s[1] /\ Tail(s) = << >>
<1>1. \A x : /\ Len(<< x >>) = 1 /\ << x >> # << >> /\ << x >>[1] = x
            /\ Head(<< x >>) = x /\ Tail(<< x >>) = << >>
            /\ Append(<< >>, x) = << x >>
  OBVIOUS
<1>2. ASSUME NEW s \in Seq(Nat)
      PROVE  /\ s = << >> <=> Len(s) = 0
             /\ Len(s) <= 1 /\ Len(s) # 1 => Len(s) = 0
             /\ Len(s) = 1 => Head(s) = s[1] /\ Tail(s) = << >>
  <2>1. s = << >> <=> Len(s) = 0 BY EmptySeq
  <2>2. ASSUME Len(s) = 1 PROVE Head(s) = s[1] /\ Tail(s) = << >>
    <3>1. s # << >> BY <2>1, <2>2
    <3>2. Head(s) = s[1] BY <3>1
    <3>3. Tail(s) \in Seq(Nat) /\ Len(Tail(s)) = 0
      BY <2>2, <3>1, HeadTailProperties
    <3> QED BY <3>2, <3>3, EmptySeq
  <2>3. Len(s) <= 1 /\ Len(s) # 1 => Len(s) = 0
    <3>1. \A n \in Nat : n <= 1 /\ n # 1 => n = 0 OBVIOUS
    <3> QED BY <3>1, LenProperties
  <2> QED BY <2>1, <2>2, <2>3
<1> QED BY <1>1, <1>2

(* Counting frames along the input. *)
LEMMA Counting ==
  ASSUME NEW n \in Nat
  PROVE  /\ FramesUpTo(n) \in Nat /\ FramesUpTo(0) = 0
         /\ FramesUpTo(n + 1)
              = IF input[n + 1] = "frame" THEN FramesUpTo(n) + 1 ELSE FramesUpTo(n)
<1> DEFINE S(k) == {i \in 1 .. k : input[i] = "frame"}
<1>1. ASSUME NEW k \in Nat PROVE IsFiniteSet(S(k)) /\ Cardinality(S(k)) \in Nat
  <2>1. IsFiniteSet(1 .. k) BY FS_Interval
  <2>2. S(k) \subseteq 1 .. k OBVIOUS
  <2>3. IsFiniteSet(S(k)) BY <2>1, <2>2, FS_Subset
  <2> QED BY <2>3, FS_CardinalityType
<1>2. S(0) = {} OBVIOUS
<1>3. CASE input[n + 1] = "frame"
  <2>1. S(n + 1) = S(n) \cup {n + 1} /\ n + 1 \notin S(n) BY <1>3
  <2> HIDE DEF S
  <2>2. Cardinality(S(n + 1)) = Cardinality(S(n)) + 1
    BY <1>1, <2>1, FS_AddElement, Zenon
  <2>3. Cardinality(S(0)) = 0 /\ Cardinality(S(n)) \in Nat
    BY <1>1, <1>2, FS_EmptySet, Zenon
  <2>4. \A k : FramesUpTo(k) = Cardinality(S(k)) BY Zenon DEF FramesUpTo, S
  <2> QED BY <1>3, <2>2, <2>3, <2>4, Zenon
<1>4. CASE input[n + 1] # "frame"
  <2>1. S(n + 1) = S(n) BY <1>4
  <2> HIDE DEF S
  <2> QED BY <1>1, <1>2, <1>4, <2>1, FS_EmptySet DEF FramesUpTo, S
<1> QED BY <1>3, <1>4

LEMMA FramesType ==
  ASSUME TypeOK PROVE Frames \in Nat /\ Frames = FramesUpTo(Len(input))
<1>1. Len(input) \in Nat BY LenProperties DEF TypeOK
<1> QED BY <1>1, Counting DEF Frames, FramesUpTo

LEMMA ReplayInit == Init => ReplayInv
<1> SUFFICES ASSUME Init PROVE ReplayInv
  OBVIOUS
<1>1. TypeOK
  <2>1. SinkTypeOK BY EmptySeq DEF Init, SinkInit, SinkTypeOK, Capacity
  <2>2. input \in Seq(Items) /\ line \in 0 .. Len(input)
    <3>1. PICK n \in 0 .. MaxItems : input \in [1 .. n -> Items] BY DEF Init
    <3>2. n \in Nat BY ReplayAssumption
    <3>3. input \in Seq(Items) BY <3>1, <3>2
    <3>4. Len(input) \in Nat BY <3>3, LenProperties
    <3> QED BY <3>3, <3>4 DEF Init
  <2> QED BY <2>1, <2>2 DEF Init, TypeOK
<1>2. Ordered /\ Dense BY DEF Init, SinkInit, Ordered, Dense
<1>3. Counted BY DEF Init, SinkInit, Counted, InHand
<1>4. HungUp BY DEF Init, SinkInit, HungUp, ReceiverAlive
<1>5. Waiting /\ Running BY DEF Init, SinkInit, Waiting, Running
<1>6. Progress
  <2>1. Frames \in Nat /\ FramesUpTo(0) = 0 BY <1>1, FramesType, Counting
  <2>2. sequence = 0 /\ line = 0 /\ result = "none"
        /\ main = IF mode = "jpegs" THEN "load" ELSE "wait"
    BY DEF Init
  <2> QED BY <2>1, <2>2 DEF Progress
<1>7. Left /\ Verdict BY DEF Init, Left, Verdict
<1> QED BY <1>1, <1>2, <1>3, <1>4, <1>5, <1>6, <1>7 DEF ReplayInv

(* The input does not change, nor does what is in it. *)
LEMMA InputKept ==
  ASSUME UNCHANGED Options
  PROVE  /\ mode' = mode /\ repeat' = repeat /\ input' = input
         /\ Frames' = Frames /\ (\A n : FramesUpTo(n)' = FramesUpTo(n))
BY DEF Options, Frames, FramesUpTo

(* The worker's steps: what they may do to the main thread's half. *)
LEMMA WorkerKeeps ==
  ASSUME ReplayInv, Worker, ReceiverAlive => outcome' # outcome \/ outcome' = "none",
         outcome # "none" => outcome' = outcome,
         outcome' = "EndOfFrames" => ~sender
  PROVE  Progress' /\ Left' /\ Verdict'
<1>1. /\ UNCHANGED << line, main, stopping, sequence, result >>
      /\ main # "exit" /\ UNCHANGED Options
  BY DEF Worker
<1>2. Progress'
  <2>1. Progress /\ line \in Nat BY DEF ReplayInv, TypeOK
  <2> QED BY <1>1, <2>1, InputKept DEF Progress
<1>3. Left'
  <2>1. Left /\ HungUp BY DEF ReplayInv
  <2>2. outcome \in {"BrokenPipe", "Failed", "Panicked"} => outcome' = outcome
    OBVIOUS
  <2> QED BY <1>1, <2>1, <2>2, InputKept DEF Left
<1>4. Verdict' BY <1>1 DEF ReplayInv, Verdict
<1> QED BY <1>2, <1>3, <1>4

LEMMA WorkerStep ==
  ASSUME ReplayInv, Worker PROVE ReplayInv'
<1>1. /\ UNCHANGED << line, main, stopping, sequence, skipped, sink_error, result,
                      mode, repeat, input >>
      /\ SinkNext /\ main \notin {"load", "exit"}
  BY DEF Worker, Options
<1>2. ASSUME SinkTypeOK' PROVE TypeOK' BY <1>1, <1>2 DEF ReplayInv, TypeOK
<1>3. ASSUME SinkTypeOK', Ordered', Counted', Dense', HungUp', Waiting', Running',
             outcome # "none" => outcome' = outcome
      PROVE  ReplayInv'
  <2>1. TypeOK' BY <1>2, <1>3
  <2>2. outcome' = "EndOfFrames" => ~sender
    BY <1>1, <1>3 DEF HungUp, SinkNext, BecomeReady, Receive, Write, EndOfFrames,
       BrokenPipe, Fail, Return, ReportStatus, Panic
  <2>3. ReceiverAlive => outcome' # outcome \/ outcome' = "none"
    BY DEF ReplayInv, HungUp
  <2> QED BY <1>3, <2>1, <2>2, <2>3, WorkerKeeps DEF ReplayInv
<1> USE DEF ReplayInv, TypeOK, SinkTypeOK, Capacity
<1>4. CASE BecomeReady
  <2>1. SinkTypeOK' BY <1>4, AppendProperties DEF BecomeReady
  <2>2. Ordered' /\ Counted' /\ Dense' /\ HungUp'
    BY <1>1, <1>4 DEF BecomeReady, Ordered, Counted, Dense, InHand,
       ReceiverAlive, HungUp
  <2>3. Waiting' /\ Running'
    BY <1>1, <1>4, ShortSequences DEF BecomeReady, Waiting, Running
  <2> QED BY <1>3, <1>4, <2>1, <2>2, <2>3 DEF BecomeReady
<1>5. CASE Receive
  <2>1. /\ Len(channel) = 1 /\ held' = channel[1] /\ channel' = << >>
        /\ channel[1] \in Nat /\ sink' = "writing"
        /\ UNCHANGED << sender, statuses, outcome, written >>
    BY <1>5, ShortSequences DEF Receive
  <2>2. SinkTypeOK'
    <3>1. channel' \in Seq(Nat) /\ Len(channel') = 0 BY <2>1, EmptySeq
    <3> QED BY <2>1, <3>1
  <2>3. Ordered' BY <1>1, <1>5, <2>1 DEF Receive, Ordered
  <2>4. Counted' /\ HungUp'
    <3>1. Len(channel') = 0 /\ InHand' = 1 /\ InHand = 0
      BY <1>5, <2>1, EmptySeq DEF Receive, InHand
    <3>2. Len(written) \in Nat BY LenProperties
    <3>3. ReceiverAlive /\ ReceiverAlive' BY <1>5 DEF Receive, ReceiverAlive
    <3>4. Counted' BY <1>1, <2>1, <3>1, <3>2, <3>3 DEF Counted
    <3> QED BY <1>1, <2>1, <3>3, <3>4 DEF HungUp
  <2>5. Dense' BY <1>1, <1>5, <2>1 DEF Receive, Dense, InHand
  <2>6. Waiting' /\ Running' BY <1>1, <1>5 DEF Receive, Waiting, Running
  <2> QED BY <1>3, <2>1, <2>2, <2>3, <2>4, <2>5, <2>6
<1>6. CASE Write
  <2>1. /\ written' \in Seq(Nat) /\ Len(written') = Len(written) + 1
        /\ \A i \in 1 .. Len(written) : written'[i] = written[i]
        /\ written'[Len(written')] = held /\ Len(written) \in Nat
    BY <1>6, AppendProperties, LenProperties DEF Write
  <2>2. SinkTypeOK' BY <1>6, <2>1 DEF Write
  <2>3. Ordered'
    <3>1. \A i \in 1 .. Len(written) : written[i] < held /\ held <= sequence
      BY <1>6 DEF Write, Ordered
    <3>2. ASSUME NEW i \in 1 .. Len(written'), NEW j \in 1 .. Len(written'), i < j
          PROVE  written'[i] < written'[j]
      <4>1. i \in 1 .. Len(written) BY <2>1, <3>2
      <4>2. CASE j = Len(written') BY <2>1, <3>1, <4>1, <4>2
      <4>3. CASE j \in 1 .. Len(written)
        BY <2>1, <3>2, <4>1, <4>3 DEF Ordered
      <4> QED BY <2>1, <4>2, <4>3
    <3>3. ASSUME NEW i \in 1 .. Len(written')
          PROVE  /\ written'[i] <= sequence
                 /\ channel # << >> => written'[i] < channel[1]
      <4>1. CASE i = Len(written')
        BY <1>6, <2>1, <4>1 DEF Write, Ordered
      <4>2. CASE i \in 1 .. Len(written)
        BY <2>1, <4>2 DEF Ordered
      <4> QED BY <2>1, <4>1, <4>2
    <3> QED BY <1>1, <1>6, <3>2, <3>3 DEF Write, Ordered
  <2>4. Counted' BY <1>1, <1>6, <2>1 DEF Write, Counted, InHand, ReceiverAlive
  <2>5. Dense'
    <3> SUFFICES ASSUME mode = "capture" PROVE Dense'
      BY <1>1 DEF Dense
    <3>1. /\ held = Len(written) + 1
          /\ \A i \in 1 .. Len(written) : written[i] = i
          /\ channel # << >> => channel[1] = Len(written) + 2
      BY <1>6, <2>1 DEF Dense, Write, InHand
    <3>2. ASSUME NEW i \in 1 .. Len(written') PROVE written'[i] = i
      <4>1. i \in 1 .. Len(written) \/ i = Len(written') BY <2>1
      <4> QED BY <2>1, <3>1, <4>1
    <3>3. channel' # << >> => channel'[1] = Len(written') + 1
      BY <1>6, <2>1, <3>1 DEF Write
    <3>4. skipped' = 0 /\ sink' = "receiving" /\ InHand' = 0
      BY <1>1, <1>6 DEF Dense, Write, InHand
    <3>5. Len(written') + 0 + 1 = Len(written') + 1 /\ "receiving" # "writing"
      BY <2>1
    <3> QED BY <3>2, <3>3, <3>4, <3>5, Zenon DEF Dense
  <2>6. HungUp' /\ Waiting' /\ Running'
    BY <1>1, <1>6 DEF Write, HungUp, ReceiverAlive, Waiting, Running
  <2> QED BY <1>3, <1>6, <2>2, <2>3, <2>4, <2>5, <2>6 DEF Write
(* The worker returns: the frame in its hand, if any, is the output's loss. *)
<1>7. ASSUME NEW how \in {"EndOfFrames", "BrokenPipe", "Failed"}, Return(how),
             ReceiverAlive, how = "BrokenPipe" => sink = "writing",
             how = "Failed" => sink \in {"starting", "writing"},
             how = "EndOfFrames" => sink = "receiving" /\ channel = << >> /\ ~sender
      PROVE  ReplayInv'
  <2>1. SinkTypeOK' BY <1>7, EmptySeq DEF Return
  <2>2. Ordered' /\ Dense' BY <1>1, <1>7 DEF Return, Ordered, Dense
  <2>3. Counted' /\ HungUp'
    BY <1>1, <1>7, ShortSequences DEF Return, Counted, InHand, ReceiverAlive,
       HungUp
  <2>4. Waiting'
    <3>1. main = "wait" => how = "Failed"
      BY <1>1, <1>7 DEF Waiting, HungUp
    <3>2. main = "wait" => sink = "starting" BY <1>1, <1>7, <3>1 DEF Waiting
    <3> QED BY <1>1, <1>7, <3>1, <3>2 DEF Return, Waiting
  <2>5. Running' BY <1>1, <1>7 DEF Return, Running, ReceiverAlive
  <2>6. outcome = "none" BY <1>7 DEF HungUp
  <2> QED BY <1>3, <2>1, <2>2, <2>3, <2>4, <2>5, <2>6
<1>8. CASE EndOfFrames \/ BrokenPipe \/ Fail
  BY <1>7, <1>8 DEF EndOfFrames, BrokenPipe, Fail, ReceiverAlive
<1>9. CASE ReportStatus
  <2>1. StatusOf(outcome) \in {"Closed", "Failed"} BY DEF StatusOf
  <2>2. SinkTypeOK' BY <1>9, <2>1, AppendProperties DEF ReportStatus
  <2>3. Waiting' BY <1>1, <1>9, ShortSequences
    DEF ReportStatus, Waiting, StatusOf, HungUp, ReceiverAlive
  <2>4. Running' BY <1>1, <1>9, ShortSequences DEF ReportStatus, Running
  <2>5. Ordered' /\ Counted' /\ Dense' /\ HungUp'
    BY <1>1, <1>9 DEF ReportStatus, Ordered, Counted, Dense, InHand,
       ReceiverAlive, HungUp
  <2> QED BY <1>3, <1>9, <2>2, <2>3, <2>4, <2>5 DEF ReportStatus
<1>10. CASE Panic
  <2>1. SinkTypeOK' BY <1>10, EmptySeq DEF Panic
  <2>2. Ordered' /\ Counted' /\ Dense' /\ HungUp'
    BY <1>1, <1>10 DEF Panic, Ordered, Counted, Dense, InHand, ReceiverAlive,
       HungUp
  <2>3. Waiting' /\ Running' BY <1>1, <1>10 DEF Panic, Waiting, Running
  <2>4. outcome = "none" BY <1>10 DEF Panic, HungUp, ReceiverAlive
  <2> QED BY <1>3, <2>1, <2>2, <2>3, <2>4
<1> QED BY <1>1, <1>4, <1>5, <1>6, <1>8, <1>9, <1>10 DEF SinkNext

-----------------------------------------------------------------------------
(* The main thread. *)

LEMMA PathKept ==
  ASSUME ReplayInv, UNCHANGED << sink, held, channel, outcome, written, sender,
                                 mode, sequence, skipped >>,
         ~sender => main' \in {"join", "exit"}
  PROVE  Ordered' /\ Counted' /\ Dense' /\ HungUp'
<1>1. Ordered' BY DEF ReplayInv, Ordered
<1>2. Counted' BY DEF ReplayInv, Counted, InHand, ReceiverAlive
<1>3. Dense' BY DEF ReplayInv, Dense, InHand
<1>4. HungUp' BY DEF ReplayInv, HungUp, ReceiverAlive
<1> QED BY <1>1, <1>2, <1>3, <1>4

(* What check_sink finds at the head of run_replay's loop. *)
LEMMA CheckSinkCases ==
  ASSUME ReplayInv, main = "next", TakeStatus
  PROVE  /\ statuses' = << >>
         /\ \/ CheckSink = "None" /\ sink # "ended"
            \/ CheckSink = "Ok" /\ sink = "ended" /\ outcome = "BrokenPipe"
            \/ CheckSink = "Sink" /\ sink = "ended" /\ outcome \in {"Failed", "Panicked"}
            \/ CheckSink = "SinkStopped" /\ sink = "ended" /\ outcome = "Panicked"
<1> USE DEF ReplayInv, TypeOK, SinkTypeOK
<1>1. /\ sink # "ended" => statuses = << >>
      /\ sink = "ended" => statuses = << >> \/ statuses = << StatusOf(outcome) >>
      /\ sink = "ended" /\ statuses = << >> => outcome = "Panicked"
  BY DEF Running
<1>2. sink = "ended" => outcome \in {"BrokenPipe", "Failed", "Panicked"}
  BY DEF HungUp, ReceiverAlive
<1>3. CASE statuses = << >>
  BY <1>1, <1>2, <1>3 DEF CheckSink, StatusOpen, TakeStatus
<1>4. CASE sink = "ended" /\ statuses = << StatusOf(outcome) >>
  <2>1. /\ statuses # << >> /\ statuses' = << >>
        /\ Head(statuses) = IF outcome = "BrokenPipe" THEN "Closed" ELSE "Failed"
    BY <1>2, <1>4, ShortSequences DEF TakeStatus, StatusOf
  <2> QED BY <1>2, <1>4, <2>1 DEF CheckSink
<1> QED BY <1>1, <1>3, <1>4

LEMMA LoadStep ==
  ASSUME ReplayInv, LoadReplayFrames, UNCHANGED Options PROVE ReplayInv'
<1>1. /\ UNCHANGED << sink, held, channel, outcome, written, sender, statuses,
                      mode, repeat, input, line, stopping, sequence, skipped,
                      sink_error >>
      /\ main = "load"
      /\ \/ main' = "exit" /\ result' \in {"NoReplayFrames", "Replay"}
         \/ /\ main' = "wait" /\ result' = result
            /\ \A i \in 1 .. Len(input) : input[i] # "bad"
  BY DEF LoadReplayFrames, ReturnWith, sinkVars, Options
<1>2. TypeOK' BY <1>1 DEF ReplayInv, TypeOK, SinkTypeOK, Errors
<1>3. Ordered' /\ Counted' /\ Dense' /\ HungUp'
  <2>1. sender BY <1>1 DEF ReplayInv, HungUp
  <2> QED BY <1>1, <2>1, PathKept
<1>4. Waiting' /\ Running' BY <1>1 DEF ReplayInv, Waiting, Running
<1>5. Progress' BY <1>1, InputKept DEF ReplayInv, Progress
<1>6. Left' /\ Verdict' BY <1>1 DEF ReplayInv, Left, Verdict
<1> QED BY <1>2, <1>3, <1>4, <1>5, <1>6 DEF ReplayInv

LEMMA StartStep ==
  ASSUME ReplayInv, Start, UNCHANGED Options PROVE ReplayInv'
<1>1. /\ UNCHANGED << sink, held, channel, outcome, written, sender, mode, repeat,
                      input, line, stopping, sequence, skipped, sink_error >>
      /\ main = "wait" /\ TakeStatus /\ SinkAnswered
  BY DEF Start, TakeStatus, Options
<1>2. /\ statuses' = << >>
      /\ \/ main' = "next" /\ result' = result /\ sink = "receiving"
         \/ main' = "exit" /\ result' \in {"Sink", "SinkStopped"}
  <2>1. CASE sink = "receiving"
    <3>1. statuses = << "Ready" >> BY <1>1, <2>1 DEF ReplayInv, Waiting
    <3> QED BY <1>1, <2>1, <3>1, ShortSequences
         DEF Start, TakeStatus, WaitForSink, ReturnWith
  <2>2. CASE sink = "ended"
    <3>1. statuses = << "Failed" >> BY <1>1, <2>2 DEF ReplayInv, Waiting
    <3> QED BY <1>1, <2>2, <3>1, ShortSequences
         DEF Start, TakeStatus, WaitForSink, ReturnWith
  <2>3. sink \in {"receiving", "ended"}
    BY <1>1 DEF ReplayInv, Waiting, SinkAnswered, StatusOpen
  <2> QED BY <2>1, <2>2, <2>3
<1>3. TypeOK'
  <2>1. statuses' \in Seq({"Ready", "Closed", "Failed"}) BY <1>2, EmptySeq
  <2> QED BY <1>1, <1>2, <2>1 DEF ReplayInv, TypeOK, SinkTypeOK, Errors
<1>4. Ordered' /\ Counted' /\ Dense' /\ HungUp'
  <2>1. sender BY <1>1 DEF ReplayInv, HungUp
  <2> QED BY <1>1, <2>1, PathKept
<1>5. Waiting' /\ Running' BY <1>1, <1>2 DEF ReplayInv, Waiting, Running
<1>6. Progress' BY <1>1, <1>2, InputKept DEF ReplayInv, Progress
<1>7. Left' /\ Verdict' BY <1>1, <1>2 DEF ReplayInv, Left, Verdict
<1> QED BY <1>3, <1>4, <1>5, <1>6, <1>7 DEF ReplayInv

LEMMA WatchStep ==
  ASSUME ReplayInv, Watch, UNCHANGED Options PROVE ReplayInv'
<1>1. /\ UNCHANGED << sink, held, channel, outcome, written, sender, mode, repeat,
                      input, line, stopping, sequence, skipped, result >>
      /\ main = "next" /\ mode = "jpegs" /\ MoreInput
  BY DEF Watch, TakeStatus, sinkVars, Options
<1>2. \/ /\ stopping /\ main' = "drop" /\ UNCHANGED << statuses, sink_error >>
      \/ /\ main' = "send" /\ sink # "ended" /\ statuses' = << >>
         /\ UNCHANGED sink_error
      \/ /\ main' = "drop" /\ sink = "ended" /\ statuses' = << >>
         /\ outcome = "BrokenPipe" /\ UNCHANGED sink_error
      \/ /\ main' = "drop" /\ sink = "ended" /\ statuses' = << >>
         /\ outcome \in {"Failed", "Panicked"}
         /\ sink_error' \in {"Sink", "SinkStopped"}
         /\ outcome = "Failed" => sink_error' = "Sink"
  <2>1. CASE stopping BY <2>1 DEF Watch, sinkVars
  <2>2. CASE ~stopping
    <3>1. /\ TakeStatus
          /\ CheckSink = "None" => main' = "send" /\ UNCHANGED sink_error
          /\ CheckSink = "Ok" => main' = "drop" /\ UNCHANGED sink_error
          /\ CheckSink \in {"Sink", "SinkStopped"}
               => main' = "drop" /\ sink_error' = CheckSink
      BY <2>2 DEF Watch
    <3> QED BY <1>1, <3>1, CheckSinkCases
  <2> QED BY <2>1, <2>2
<1>3. TypeOK'
  <2>1. statuses' \in Seq({"Ready", "Closed", "Failed"})
    BY <1>2, EmptySeq DEF ReplayInv, TypeOK, SinkTypeOK
  <2> QED BY <1>1, <1>2, <2>1 DEF ReplayInv, TypeOK, SinkTypeOK
<1>4. Ordered' /\ Counted' /\ Dense' /\ HungUp'
  <2>1. sender BY <1>1 DEF ReplayInv, HungUp
  <2> QED BY <1>1, <2>1, PathKept
<1>5. Waiting' /\ Running' BY <1>1, <1>2 DEF ReplayInv, Waiting, Running
<1>6. Progress' BY <1>1, <1>2, InputKept DEF ReplayInv, Progress, MoreInput
<1>7. Left' /\ Verdict' BY <1>1, <1>2 DEF ReplayInv, Left, Verdict
<1> QED BY <1>3, <1>4, <1>5, <1>6, <1>7 DEF ReplayInv

(* A frame finds room in the channel. *)
LEMMA Accepted ==
  ASSUME ReplayInv, TrySend = "Ok", Send(sequence + 1), sequence' = sequence + 1,
         UNCHANGED << mode, skipped >>, main \in {"next", "send"}
  PROVE  /\ SinkTypeOK' /\ Ordered' /\ Counted' /\ Dense' /\ HungUp'
         /\ UNCHANGED << sink, statuses, outcome >>
<1> USE DEF ReplayInv, TypeOK, SinkTypeOK, Capacity
<1>1. ReceiverAlive /\ channel = << >> /\ Len(channel) = 0
  <2>1. ReceiverAlive /\ Len(channel) # 1 BY DEF TrySend
  <2>2. channel \in Seq(Nat) /\ Len(channel) <= 1 OBVIOUS
  <2>3. Len(channel) = 0 BY <2>1, <2>2, ShortSequences
  <2> QED BY <2>1, <2>3, ShortSequences
<1>2. /\ channel' = << sequence + 1 >>
      /\ UNCHANGED << sink, held, sender, statuses, outcome, written >>
  BY <1>1, ShortSequences DEF Send
<1>3. /\ channel' \in Seq(Nat) /\ Len(channel') = 1 /\ channel'[1] = sequence + 1
      /\ channel' # << >>
  BY <1>2, ShortSequences, AppendProperties, EmptySeq
<1>4. SinkTypeOK' BY <1>2, <1>3
<1>5. Ordered'
  <2>1. \A i \in 1 .. Len(written) :
          written[i] \in Nat /\ written[i] <= sequence
    BY LenProperties DEF Ordered
  <2> QED BY <1>2, <1>3, <2>1 DEF Ordered
<1>6. Len(written) \in Nat /\ InHand \in {0, 1} /\ InHand' = InHand
  BY <1>2, LenProperties DEF InHand
<1>7. Len(written) + InHand = sequence - skipped BY <1>1, <1>6 DEF Counted
<1>8. Counted'
  BY <1>1, <1>2, <1>3, <1>6, <1>7 DEF Counted
<1>9. Dense'
  <2>1. mode = "capture" => sequence + 1 = Len(written) + InHand + 1
    BY <1>6, <1>7 DEF Dense
  <2> QED BY <1>2, <1>3, <1>6, <2>1 DEF Dense
<1>10. HungUp'
  <2>1. ReceiverAlive' BY <1>1, <1>2 DEF ReceiverAlive
  <2>2. sender BY DEF HungUp
  <2> QED BY <1>1, <1>2, <2>1, <2>2 DEF HungUp
<1> QED BY <1>2, <1>4, <1>5, <1>8, <1>9, <1>10

(* A frame is not accepted and counted as skipped. *)
LEMMA Refused ==
  ASSUME ReplayInv, mode = "jpegs", sequence' = sequence + 1,
         skipped' = skipped + 1, UNCHANGED << sinkVars, mode >>,
         main \in {"next", "send"}
  PROVE  Ordered' /\ Counted' /\ Dense' /\ HungUp'
<1>1. /\ UNCHANGED << sink, held, channel, sender, statuses, outcome, written >>
      /\ SinkTypeOK /\ sequence \in Nat /\ skipped \in Nat
  BY DEF sinkVars, ReplayInv, TypeOK
<1>2. Ordered'
  <2>1. \A i \in 1 .. Len(written) :
          written[i] \in Nat /\ written[i] <= sequence + 1
    BY <1>1, LenProperties DEF ReplayInv, Ordered, SinkTypeOK
  <2>2. channel # << >> => channel[1] <= sequence + 1
    <3>1. channel # << >> => channel[1] \in Nat
      BY <1>1, EmptySeq, LenProperties DEF SinkTypeOK
    <3> QED BY <1>1, <3>1 DEF ReplayInv, Ordered
  <2>3. sink = "writing" => held <= sequence + 1
    BY <1>1 DEF ReplayInv, Ordered, SinkTypeOK
  <2> QED BY <1>1, <2>1, <2>2, <2>3 DEF ReplayInv, Ordered
<1>3. Counted'
  <2>1. sequence' - skipped' = sequence - skipped BY <1>1
  <2> QED BY <1>1, <2>1 DEF ReplayInv, Counted, InHand, ReceiverAlive
<1>4. Dense' BY DEF Dense
<1>5. HungUp'
  <2>1. sender BY DEF ReplayInv, HungUp
  <2> QED BY <1>1, <2>1 DEF ReplayInv, HungUp, ReceiverAlive
<1> QED BY <1>2, <1>3, <1>4, <1>5

LEMMA OfferStep ==
  ASSUME ReplayInv, OfferFrame, UNCHANGED Options PROVE ReplayInv'
<1>1. /\ main = "send" /\ mode = "jpegs"
      /\ UNCHANGED << line, stopping, sink_error, result, mode, repeat, input >>
      /\ TypeOK /\ sequence \in Nat
  BY DEF OfferFrame, Options, ReplayInv, Progress, TypeOK
<1>2. CASE TrySend = "Disconnected"
  <2>1. /\ UNCHANGED << sink, held, channel, outcome, written, sender, statuses,
                        sequence, skipped >>
        /\ main' = "drop"
    BY <1>2 DEF OfferFrame, sinkVars
  <2>2. outcome \in {"BrokenPipe", "Failed", "Panicked"}
    BY <1>1, <1>2 DEF TrySend, ReplayInv, HungUp, TypeOK, SinkTypeOK
  <2>3. TypeOK' BY <1>1, <2>1 DEF TypeOK, SinkTypeOK
  <2>4. Ordered' /\ Counted' /\ Dense' /\ HungUp'
    <3>1. sender BY <1>1 DEF ReplayInv, HungUp
    <3> QED BY <1>1, <2>1, <3>1, PathKept
  <2>5. Waiting' /\ Running' BY <1>1, <2>1 DEF ReplayInv, Waiting, Running
  <2>6. Progress' BY <1>1, <2>1, InputKept DEF ReplayInv, Progress
  <2>7. Left' /\ Verdict' BY <1>1, <2>1, <2>2 DEF ReplayInv, Left, Verdict
  <2> QED BY <2>3, <2>4, <2>5, <2>6, <2>7 DEF ReplayInv
<1>3. CASE TrySend # "Disconnected"
  <2>1. /\ main' = "sleep" /\ sequence' = sequence + 1
        /\ \/ TrySend = "Ok" /\ Send(sequence + 1) /\ UNCHANGED skipped
           \/ skipped' = skipped + 1 /\ UNCHANGED sinkVars
    BY <1>3 DEF OfferFrame
  <2>2. /\ SinkTypeOK' /\ Ordered' /\ Counted' /\ Dense' /\ HungUp'
        /\ UNCHANGED << sink, statuses, outcome >>
    <3>1. CASE TrySend = "Ok" /\ Send(sequence + 1) /\ UNCHANGED skipped
      BY <1>1, <2>1, <3>1, Accepted
    <3>2. CASE skipped' = skipped + 1 /\ UNCHANGED sinkVars
      <4>1. SinkTypeOK' /\ UNCHANGED << sink, statuses, outcome >>
        BY <1>1, <3>2 DEF sinkVars, TypeOK, SinkTypeOK
      <4> QED BY <1>1, <2>1, <3>2, <4>1, Refused
    <3> QED BY <2>1, <3>1, <3>2
  <2>3. skipped' \in Nat BY <1>1, <2>1 DEF TypeOK
  <2>4. TypeOK' BY <1>1, <2>1, <2>2, <2>3 DEF TypeOK
  <2>5. Waiting' /\ Running' BY <1>1, <2>1, <2>2 DEF ReplayInv, Waiting, Running
  <2>6. Progress'
    <3>1. Frames \in Nat BY <1>1, FramesType
    <3>2. ~repeat => sequence' <= Frames
      BY <1>1, <2>1, <3>1 DEF ReplayInv, Progress
    <3> QED BY <1>1, <2>1, <3>2, InputKept DEF ReplayInv, Progress
  <2>7. Left' /\ Verdict' BY <1>1, <2>1, <2>2 DEF ReplayInv, Left, Verdict
  <2> QED BY <2>2, <2>4, <2>5, <2>6, <2>7 DEF ReplayInv
<1> QED BY <1>2, <1>3

LEMMA SendStep ==
  ASSUME ReplayInv, SendFrame, UNCHANGED Options PROVE ReplayInv'
<1>1. /\ main = "next" /\ mode = "capture" /\ input[line + 1] = "frame"
      /\ UNCHANGED << stopping, skipped, sink_error, result, mode, repeat, input >>
      /\ TypeOK /\ sequence \in Nat /\ line \in Nat /\ Len(input) \in Nat
      /\ line < Len(input)
  BY LenProperties DEF SendFrame, MoreInput, Options, ReplayInv, TypeOK
<1>2. CASE TrySend = "Disconnected"
  <2>1. /\ UNCHANGED << sink, held, channel, outcome, written, sender, statuses,
                        sequence, line >>
        /\ main' = "drop"
    BY <1>2 DEF SendFrame, sinkVars
  <2>2. outcome \in {"BrokenPipe", "Failed", "Panicked"}
    BY <1>1, <1>2 DEF TrySend, ReplayInv, HungUp, TypeOK, SinkTypeOK
  <2>3. TypeOK' BY <1>1, <2>1 DEF TypeOK, SinkTypeOK
  <2>4. Ordered' /\ Counted' /\ Dense' /\ HungUp'
    <3>1. sender BY <1>1 DEF ReplayInv, HungUp
    <3> QED BY <1>1, <2>1, <3>1, PathKept
  <2>5. Waiting' /\ Running' BY <1>1, <2>1 DEF ReplayInv, Waiting, Running
  <2>6. Progress' BY <1>1, <2>1, InputKept DEF ReplayInv, Progress
  <2>7. Left' /\ Verdict' BY <1>1, <2>1, <2>2 DEF ReplayInv, Left, Verdict
  <2> QED BY <2>3, <2>4, <2>5, <2>6, <2>7 DEF ReplayInv
<1>3. CASE TrySend = "Ok"
  <2>1. /\ Send(sequence + 1) /\ line' = line + 1
        /\ sequence' = sequence + 1 /\ UNCHANGED main
    BY <1>3 DEF SendFrame
  <2>2. /\ SinkTypeOK' /\ Ordered' /\ Counted' /\ Dense' /\ HungUp'
        /\ UNCHANGED << sink, statuses, outcome >>
    BY <1>1, <1>3, <2>1, Accepted
  <2>3. TypeOK' BY <1>1, <2>1, <2>2 DEF TypeOK
  <2>4. Waiting' /\ Running' BY <1>1, <2>1, <2>2 DEF ReplayInv, Waiting, Running
  <2>5. Progress'
    <3>1. sequence' = FramesUpTo(line + 1)
      BY <1>1, <2>1, Counting DEF ReplayInv, Progress
    <3>2. (\A n : FramesUpTo(n)' = FramesUpTo(n)) BY InputKept
    <3>3. FramesUpTo(line)' = FramesUpTo(line + 1)
      BY <1>1, <2>1 DEF FramesUpTo
    <3>4. \A i \in 1 .. line + 1 : input[i] # "bad"
      <4> TAKE i \in 1 .. line + 1
      <4>1. i \in 1 .. line \/ i = line + 1 BY <1>1
      <4> QED BY <1>1, <4>1 DEF ReplayInv, Progress
    <3> QED BY <1>1, <2>1, <3>1, <3>3, <3>4 DEF Progress
  <2>6. Left' /\ Verdict' BY <1>1, <2>1, <2>2 DEF ReplayInv, Left, Verdict
  <2> QED BY <2>2, <2>3, <2>4, <2>5, <2>6 DEF ReplayInv
<1> QED BY <1>2, <1>3 DEF SendFrame, TrySend

(* The loop is left with nothing touched but the main thread's place. *)
LEMMA LoopLeft ==
  ASSUME ReplayInv, UNCHANGED Options, InputEnds \/ Pace PROVE ReplayInv'
<1>1. /\ UNCHANGED << sink, held, channel, outcome, written, sender, statuses,
                      mode, repeat, input, line, stopping, sequence, skipped,
                      sink_error, result >>
      /\ main \in {"next", "sleep"} /\ main' \in {"next", "drop"}
      /\ main = "sleep" => main' = IF stopping THEN "drop" ELSE "next"
      /\ main = "next" => main' = "drop" /\ ~MoreInput
      /\ TypeOK
  BY DEF InputEnds, Pace, sinkVars, Options, ReplayInv
<1>2. TypeOK' BY <1>1 DEF TypeOK, SinkTypeOK
<1>3. Ordered' /\ Counted' /\ Dense' /\ HungUp'
  <2>1. sender BY <1>1 DEF ReplayInv, HungUp
  <2> QED BY <1>1, <2>1, PathKept
<1>4. Waiting' /\ Running' BY <1>1 DEF ReplayInv, Waiting, Running
<1>5. Progress' BY <1>1, InputKept DEF ReplayInv, Progress
<1>6. Left'
  <2>1. CASE main = "sleep"
    BY <1>1, <2>1 DEF ReplayInv, Progress, Left, TypeOK
  <2>2. CASE main = "next"
    <3>1. CASE mode = "capture"
      <4>1. \A a, b \in Nat : a \in 0 .. b /\ ~(a < b) => a = b OBVIOUS
      <4>2. Len(input) \in Nat /\ line \in 0 .. Len(input) /\ line \in Nat
        BY <1>1, LenProperties DEF TypeOK
      <4>3. line = Len(input) BY <1>1, <2>2, <3>1, <4>1, <4>2 DEF MoreInput
      <4> QED BY <1>1, <3>1, <4>3 DEF Left
    <3>2. CASE mode = "jpegs"
      <4>1. \A a, b \in Nat : a <= b /\ ~(a < b) => a = b OBVIOUS
      <4>2. Frames \in Nat /\ sequence \in Nat BY <1>1, FramesType DEF TypeOK
      <4>3. ~repeat /\ sequence = Frames
        BY <1>1, <2>2, <3>2, <4>1, <4>2 DEF ReplayInv, Progress, MoreInput
      <4> QED BY <1>1, <3>2, <4>3, InputKept DEF Left
    <3> QED BY <1>1, <3>1, <3>2 DEF TypeOK
  <2> QED BY <1>1, <2>1, <2>2
<1>7. Verdict' BY <1>1 DEF ReplayInv, Verdict
<1> QED BY <1>2, <1>3, <1>4, <1>5, <1>6, <1>7 DEF ReplayInv

LEMMA SkipStep ==
  ASSUME ReplayInv, SkipLine, UNCHANGED Options PROVE ReplayInv'
<1>1. /\ UNCHANGED << sink, held, channel, outcome, written, sender, statuses,
                      mode, repeat, input, main, stopping, sequence, skipped,
                      sink_error, result >>
      /\ main = "next" /\ mode = "capture" /\ input[line + 1] = "other"
      /\ line' = line + 1 /\ TypeOK
      /\ line \in Nat /\ Len(input) \in Nat /\ line < Len(input)
  BY LenProperties DEF SkipLine, MoreInput, sinkVars, Options, ReplayInv, TypeOK
<1>2. TypeOK' BY <1>1 DEF TypeOK, SinkTypeOK
<1>3. Ordered' /\ Counted' /\ Dense' /\ HungUp'
  <2>1. sender BY <1>1 DEF ReplayInv, HungUp
  <2> QED BY <1>1, <2>1, PathKept
<1>4. Waiting' /\ Running' BY <1>1 DEF ReplayInv, Waiting, Running
<1>5. Progress'
  <2>1. sequence' = FramesUpTo(line + 1)
    BY <1>1, Counting DEF ReplayInv, Progress
  <2>2. FramesUpTo(line)' = FramesUpTo(line + 1) BY <1>1 DEF FramesUpTo
  <2>3. \A i \in 1 .. line + 1 : input[i] # "bad"
    <3> TAKE i \in 1 .. line + 1
    <3>1. i \in 1 .. line \/ i = line + 1 BY <1>1
    <3> QED BY <1>1, <3>1 DEF ReplayInv, Progress
  <2> QED BY <1>1, <2>1, <2>2, <2>3 DEF Progress
<1>6. Left' /\ Verdict' BY <1>1 DEF ReplayInv, Left, Verdict
<1> QED BY <1>2, <1>3, <1>4, <1>5, <1>6 DEF ReplayInv

LEMMA BadStep ==
  ASSUME ReplayInv, BadLine, UNCHANGED Options PROVE ReplayInv'
<1>1. /\ UNCHANGED << sink, held, channel, outcome, written, sender, statuses,
                      mode, repeat, input, line, stopping, sequence, skipped,
                      sink_error >>
      /\ main = "next" /\ mode = "capture" /\ main' = "exit" /\ result' = "Replay"
  BY DEF BadLine, ReturnWith, sinkVars, Options
<1>2. TypeOK' BY <1>1 DEF ReplayInv, TypeOK, SinkTypeOK, Errors
<1>3. Ordered' /\ Counted' /\ Dense' /\ HungUp' BY <1>1, PathKept
<1>4. Waiting' /\ Running' BY <1>1 DEF Waiting, Running
<1>5. Progress' BY <1>1, InputKept DEF ReplayInv, Progress
<1>6. Left' /\ Verdict' BY <1>1 DEF Left, Verdict
<1> QED BY <1>2, <1>3, <1>4, <1>5, <1>6 DEF ReplayInv

LEMMA HangUpStep ==
  ASSUME ReplayInv, HangUp, UNCHANGED Options PROVE ReplayInv'
<1>1. /\ UNCHANGED << sink, held, channel, outcome, written, statuses,
                      mode, repeat, input, line, stopping, sequence, skipped,
                      sink_error, result >>
      /\ main = "drop" /\ main' = "join" /\ sender' = FALSE
  BY DEF HangUp, DropSender, Options
<1>2. TypeOK'
  <2>1. sender' \in BOOLEAN BY <1>1, Zenon
  <2> QED BY <1>1, <2>1 DEF ReplayInv, TypeOK, SinkTypeOK
<1>3. Ordered' /\ Counted' /\ Dense'
  BY <1>1 DEF ReplayInv, Ordered, Counted, Dense, InHand, ReceiverAlive
<1>4. HungUp' BY <1>1 DEF ReplayInv, HungUp, ReceiverAlive
<1>5. Waiting' /\ Running' BY <1>1 DEF ReplayInv, Waiting, Running
<1>6. Progress' BY <1>1, InputKept DEF ReplayInv, Progress
<1>7. Left' /\ Verdict' BY <1>1, InputKept DEF ReplayInv, Left, Verdict
<1> QED BY <1>2, <1>3, <1>4, <1>5, <1>6, <1>7 DEF ReplayInv

(* The status that was read during the loop is not read again after the join,*)
(* which is why sink_error must keep it.                                     *)
LEMMA JoinStep ==
  ASSUME ReplayInv, Join, UNCHANGED Options PROVE ReplayInv'
<1>1. /\ UNCHANGED << sink, held, channel, outcome, written, sender, statuses,
                      mode, repeat, input, line, stopping, sequence, skipped,
                      sink_error >>
      /\ main = "join" /\ sink = "ended" /\ main' = "exit"
      /\ TypeOK
  BY DEF Join, ReturnWith, sinkVars, Options, ReplayInv
<1>2. outcome # "none" BY <1>1 DEF ReplayInv, HungUp, ReceiverAlive
<1>3. /\ result' \in Errors \cup {"Ok"}
      /\ result' = "Ok" => outcome \notin {"Failed", "Panicked"}
  <2>1. CASE outcome = "Panicked" BY <2>1 DEF Join, ReturnWith, Errors
  <2>2. CASE outcome = "Failed"
    <3>1. CASE statuses = << >>
      <4>1. sink_error = "Sink" BY <1>1, <2>2, <3>1 DEF ReplayInv, Running
      <4> QED BY <2>2, <4>1 DEF Join, ReturnWith, Errors
    <3>2. CASE statuses = << "Failed" >>
      <4>1. 1 \in 1 .. Len(statuses) /\ statuses[1] = "Failed"
        BY <3>2, ShortSequences
      <4> QED BY <2>2, <4>1 DEF Join, ReturnWith, Errors
    <3> QED BY <1>1, <2>2, <3>1, <3>2 DEF ReplayInv, Running, StatusOf
  <2>3. CASE outcome \notin {"Failed", "Panicked"}
    BY <1>1, <2>3 DEF Join, ReturnWith, Errors, TypeOK
  <2> QED BY <2>1, <2>2, <2>3
<1>4. TypeOK' BY <1>1, <1>3 DEF TypeOK, SinkTypeOK
<1>5. Ordered' /\ Counted' /\ Dense' /\ HungUp' BY <1>1, PathKept
<1>6. Waiting' /\ Running' BY <1>1 DEF Waiting, Running
<1>7. Progress' BY <1>1, InputKept DEF ReplayInv, Progress
<1>8. Left' BY <1>1, InputKept DEF ReplayInv, Left
<1>9. Verdict' BY <1>1, <1>2, <1>3 DEF Verdict, Errors
<1> QED BY <1>4, <1>5, <1>6, <1>7, <1>8, <1>9 DEF ReplayInv

LEMMA SignalStep ==
  ASSUME ReplayInv, Signal, UNCHANGED Options PROVE ReplayInv'
<1>1. /\ UNCHANGED << sink, held, channel, outcome, written, sender, statuses,
                      mode, repeat, input, line, main, sequence, skipped,
                      sink_error, result >>
      /\ stopping' = TRUE /\ main # "exit"
  BY DEF Signal, sinkVars, Options
<1>2. TypeOK'
  <2>1. stopping' \in BOOLEAN BY <1>1, Zenon
  <2> QED BY <1>1, <2>1 DEF ReplayInv, TypeOK, SinkTypeOK
<1>3. Ordered' /\ Counted' /\ Dense' /\ HungUp'
  BY <1>1, PathKept DEF ReplayInv, HungUp
<1>4. Waiting' /\ Running' BY <1>1 DEF ReplayInv, Waiting, Running
<1>5. Progress' BY <1>1, InputKept DEF ReplayInv, Progress
<1>6. Left' BY <1>1, InputKept DEF ReplayInv, Left
<1>7. Verdict' BY <1>1 DEF ReplayInv, Verdict
<1> QED BY <1>2, <1>3, <1>4, <1>5, <1>6, <1>7 DEF ReplayInv

LEMMA StutterStep ==
  ASSUME ReplayInv, UNCHANGED vars PROVE ReplayInv'
<1>1. UNCHANGED << sink, held, channel, outcome, written, sender, statuses,
                   mode, repeat, input, line, main, stopping, sequence, skipped,
                   sink_error, result >>
  BY DEF vars, sinkVars
<1>2. TypeOK' BY <1>1 DEF ReplayInv, TypeOK, SinkTypeOK
<1>3. Ordered' /\ Counted' /\ Dense' /\ HungUp'
  BY <1>1, PathKept DEF ReplayInv, HungUp
<1>4. Waiting' /\ Running' BY <1>1 DEF ReplayInv, Waiting, Running
<1>5. UNCHANGED Options BY <1>1 DEF Options
<1>6. Progress' BY <1>1, <1>5, InputKept DEF ReplayInv, Progress
<1>7. Left' BY <1>1, <1>5, InputKept DEF ReplayInv, Left
<1>8. Verdict' BY <1>1 DEF ReplayInv, Verdict
<1> QED BY <1>2, <1>3, <1>4, <1>6, <1>7, <1>8 DEF ReplayInv

LEMMA ReplayStep == ReplayInv /\ [Next]_vars => ReplayInv'
<1> SUFFICES ASSUME ReplayInv, [Next]_vars PROVE ReplayInv'
  OBVIOUS
<1>1. CASE Main
  BY <1>1, LoadStep, StartStep, LoopLeft, WatchStep, OfferStep, SendStep, SkipStep,
     BadStep, HangUpStep, JoinStep
  DEF Main
<1>2. CASE Worker BY <1>2, WorkerStep
<1>3. CASE Signal /\ UNCHANGED Options BY <1>3, SignalStep
<1>4. CASE UNCHANGED vars BY <1>4, StutterStep
<1> QED BY <1>1, <1>2, <1>3, <1>4 DEF Next, Finished

LEMMA ReplayInvariant == Spec => []ReplayInv
BY ReplayInit, ReplayStep, PTL DEF Spec

(* run_replay and run_replay_capture, for an input of any length: what is    *)
(* written is in order and never twice, without a hole for a raw capture,    *)
(* and a replay that ends well met no bad item and has written every frame   *)
(* it did not skip, whenever the signals and the end of the worker come.     *)
THEOREM ReplaySafety == Spec => []ReplayComplete
<1>1. ReplayInv => ReplayComplete
  <2> SUFFICES ASSUME ReplayInv PROVE ReplayComplete
    OBVIOUS
  <2>1. /\ \A i, j \in 1 .. Len(written) : i < j => written[i] < written[j]
        /\ mode = "capture" => \A i \in 1 .. Len(written) : written[i] = i
    BY DEF ReplayInv, Ordered, Dense
  <2>2. ASSUME main = "exit", result = "Ok", outcome = "EndOfFrames"
        PROVE  /\ Len(written) = sequence - skipped
               /\ \A i \in 1 .. Len(input) : input[i] # "bad"
               /\ ~stopping /\ ~repeat => sequence = Frames
    <3>1. InHand = 0 /\ channel = << >> /\ Len(channel) = 0
      BY <2>2, ShortSequences, EmptySeq DEF ReplayInv, HungUp, ReceiverAlive, InHand
    <3>2. Len(written) \in Nat
      BY LenProperties DEF ReplayInv, TypeOK, SinkTypeOK
    <3>3. Len(written) = sequence - skipped
      BY <2>2, <3>1, <3>2 DEF ReplayInv, Counted
    <3>4. \A i \in 1 .. Len(input) : input[i] # "bad"
      BY <2>2 DEF ReplayInv, TypeOK, Progress, Left
    <3>5. ~stopping /\ ~repeat => sequence = Frames
      <4>1. TypeOK BY DEF ReplayInv
      <4> QED BY <2>2, <4>1, FramesType DEF ReplayInv, TypeOK, Progress, Left
    <3> QED BY <3>3, <3>4, <3>5
  <2> QED BY <2>1, <2>2 DEF ReplayComplete
<1> QED BY <1>1, ReplayInvariant, PTL

(* A worker that failed or panicked makes the replay fail, whichever of the  *)
(* loop, try_send and the join learns of it first.                           *)
THEOREM FailureSafety == Spec => []OutputFailureReported
<1>1. ReplayInv => OutputFailureReported
  BY DEF ReplayInv, Verdict, OutputFailureReported
<1> QED BY <1>1, ReplayInvariant, PTL
===============================================================================
