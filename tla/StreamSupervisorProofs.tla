------------------------ MODULE StreamSupervisorProofs ------------------------
(***************************************************************************)
(* Proofs about handycam stream: for every set of ports and any number of  *)
(* frames, a session is never left open, the output is blamed only for     *)
(* what it did, and what the frame channel accepted is written in order.   *)
(***************************************************************************)
EXTENDS StreamSupervisor, SequenceTheorems, TLAPS

(* Frames move from the driver through the channel and the worker's hand to *)
(* the output without overtaking each other.                                *)
Ordered ==
  /\ \A i, j \in 1 .. Len(written) : i < j => written[i] < written[j]
  /\ \A i \in 1 .. Len(written) :
       /\ written[i] <= produced
       /\ sink = "writing" => written[i] < held
       /\ channel # << >> => written[i] < channel[1]
  /\ sink = "writing" => /\ held <= produced
                         /\ channel # << >> => held < channel[1]
  /\ channel # << >> => channel[1] <= produced

InHand == IF sink = "writing" THEN 1 ELSE 0

(* Every frame counted is written, held or buffered, unless the output ended *)
(* by itself.                                                                *)
Counted ==
  ReceiverAlive \/ outcome = "EndOfFrames"
    => Len(written) + InHand + Len(channel) = frames

(* The channel is hung up by the last steps only, and the worker takes its *)
(* leave only after that.                                                  *)
HungUp == /\ ~sender => main \in {"join", "exit"}
          /\ outcome = "EndOfFrames" => ~sender
          /\ ReceiverAlive <=> outcome = "none"
          /\ ~ReceiverAlive => channel = << >>

(* Before the first status nothing was sent. *)
Waiting == main = "wait" => /\ sink \in {"starting", "receiving", "returned",
                                         "ended"}
                            /\ outcome \in {"none", "Failed"}
                            /\ statuses = IF sink = "receiving" THEN << "Ready" >>
                                          ELSE IF sink = "ended" THEN << "Failed" >>
                                          ELSE << >>
                            /\ frames = 0 /\ ended = "none" /\ result = "none"
                            /\ channel = << >> /\ written = << >>

(* Afterwards at most the final status is in the channel, and once it was  *)
(* read the loop is being left.                                            *)
Running ==
  main \notin {"wait", "exit"} =>
    /\ sink # "starting"
    /\ sink # "ended" => statuses = << >>
    /\ sink = "ended" => statuses = << >> \/ statuses = << StatusOf(outcome) >>
    /\ sink = "ended" /\ statuses = << >> =>
         \/ outcome = "Panicked"
         \/ main \in {"drop", "join"}
         \/ main = "stop" /\ ended \in {"SinkClosed", "Sink", "SinkStopped"}

(* Only an output that failed is blamed. *)
Blamed == result \in {"Sink", "SinkStopped"} \/ ended \in {"Sink", "SinkStopped"}
            => outcome \in {"Failed", "Panicked"}

SupervisorInv == /\ TypeOK /\ Ordered /\ Counted /\ HungUp /\ Waiting
                 /\ Running /\ Blamed /\ OneSessionAtATime /\ NoAcceptedFrameLost

-----------------------------------------------------------------------------
(* Sequences of at most one element. *)
LEMMA ShortSequences ==
  /\ \A x : /\ Len(<< x >>) = 1 /\ << x >> # << >> /\ << x >>[1] = x
           /\ Head(<< x >>) = x /\ Tail(<< x >>) = << >>
           /\ Append(<< >>, x) = << x >>
  /\ \A s \in Seq(Nat) : /\ s = << >> <=> Len(s) = 0
                         /\ Len(s) <= 1 /\ Len(s) # 1 => Len(s) = 0
                         /\ Len(s) = 1 => Head(s) = s[1] /\ Tail(s) = << >>
<1>1. \A x : /\ Len(<< x >>) = 1 /\ << x >> # << >> /\ << x >>[1] = x
            /\ Head(<< x >>) = x /\ Tail(<< x >>) = << >>
            /\ Append(<< >>, x) = << x >>
  OBVIOUS
<1>2. ASSUME NEW s \in Seq(Nat)
      PROVE  /\ s = << >> <=> Len(s) = 0
             /\ Len(s) <= 1 /\ Len(s) # 1 => Len(s) = 0
             /\ Len(s) = 1 => Head(s) = s[1] /\ Tail(s) = << >>
  <2>1. s = << >> <=> Len(s) = 0 BY EmptySeq
  <2>2. ASSUME Len(s) = 1 PROVE Head(s) = s[1] /\ Tail(s) = << >>
    <3>1. s # << >> BY <2>1, <2>2
    <3>2. Head(s) = s[1] BY <3>1
    <3>3. Tail(s) \in Seq(Nat) /\ Len(Tail(s)) = 0
      BY <2>2, <3>1, HeadTailProperties
    <3> QED BY <3>2, <3>3, EmptySeq
  <2>3. Len(s) <= 1 /\ Len(s) # 1 => Len(s) = 0
    <3>1. \A n \in Nat : n <= 1 /\ n # 1 => n = 0 OBVIOUS
    <3> QED BY <3>1, LenProperties
  <2> QED BY <2>1, <2>2, <2>3
<1> QED BY <1>1, <1>2

LEMMA SupervisorInit == Init => SupervisorInv
<1> SUFFICES ASSUME Init PROVE SupervisorInv
  OBVIOUS
<1>1. TypeOK
  <2>1. SinkTypeOK BY EmptySeq DEF Init, SinkInit, SinkTypeOK, Capacity
  <2>2. retry_delay \in FirstDelay .. LongestDelay
    BY DEF Init, FirstDelay, LongestDelay
  <2> QED BY <2>1, <2>2 DEF Init, TypeOK
<1>2. Ordered /\ NoAcceptedFrameLost
  BY DEF Init, SinkInit, Ordered, NoAcceptedFrameLost
<1>3. Counted BY DEF Init, SinkInit, Counted, InHand
<1>4. HungUp BY DEF Init, SinkInit, HungUp, ReceiverAlive
<1>5. Waiting /\ Running BY DEF Init, SinkInit, Waiting, Running
<1>6. Blamed /\ OneSessionAtATime
  BY DEF Init, SinkInit, Blamed, OneSessionAtATime
<1> QED BY <1>1, <1>2, <1>3, <1>4, <1>5, <1>6 DEF SupervisorInv

(* The worker's steps. *)
LEMMA WorkerStep ==
  ASSUME SupervisorInv, Worker PROVE SupervisorInv'
<1> USE DEF SupervisorInv, TypeOK, SinkTypeOK, Capacity, Worker, mainVars
<1>1. CASE BecomeReady
  <2>1. TypeOK' BY <1>1, AppendProperties DEF BecomeReady
  <2> QED BY <1>1, <2>1, ShortSequences
     DEF BecomeReady, Ordered, Counted, InHand, ReceiverAlive, HungUp, Waiting,
         Running, Blamed, OneSessionAtATime, NoAcceptedFrameLost
<1>2. CASE Receive
  BY <1>2, ShortSequences DEF Receive, Ordered, Counted, InHand,
     ReceiverAlive, HungUp, Waiting, Running, Blamed, OneSessionAtATime,
     NoAcceptedFrameLost
<1>3. CASE Write
  <2>1. /\ written' \in Seq(Nat) /\ Len(written') = Len(written) + 1
        /\ \A i \in 1 .. Len(written) : written'[i] = written[i]
        /\ written'[Len(written')] = held
    BY <1>3, AppendProperties DEF Write
  <2>2. TypeOK' BY <1>3, <2>1 DEF Write
  <2>3. Ordered'
    <3>1. \A i \in 1 .. Len(written) : written[i] < held /\ held <= produced
      BY <1>3 DEF Write, Ordered
    <3>2. ASSUME NEW i \in 1 .. Len(written'), NEW j \in 1 .. Len(written'), i < j
          PROVE  written'[i] < written'[j]
      <4>1. i \in 1 .. Len(written) BY <2>1, <3>2
      <4>2. CASE j = Len(written') BY <2>1, <3>1, <4>1, <4>2
      <4>3. CASE j \in 1 .. Len(written)
        BY <2>1, <3>2, <4>1, <4>3 DEF Ordered
      <4> QED BY <2>1, <4>2, <4>3
    <3>3. ASSUME NEW i \in 1 .. Len(written')
          PROVE  /\ written'[i] <= produced
                 /\ channel # << >> => written'[i] < channel[1]
      <4>1. CASE i = Len(written')
        BY <1>3, <2>1, <4>1 DEF Write, Ordered
      <4>2. CASE i \in 1 .. Len(written)
        BY <2>1, <4>2 DEF Ordered
      <4> QED BY <2>1, <4>1, <4>2
    <3> QED BY <1>3, <3>2, <3>3 DEF Write, Ordered
  <2>4. Counted' BY <1>3, <2>1 DEF Write, Counted, InHand, ReceiverAlive
  <2>5. NoAcceptedFrameLost' BY <1>3, <2>3 DEF NoAcceptedFrameLost, Ordered
  <2> QED BY <1>3, <2>1, <2>2, <2>3, <2>4, <2>5
     DEF Write, ReceiverAlive, HungUp, Waiting, Running, Blamed, OneSessionAtATime
<1>4. CASE EndOfFrames
  BY <1>4, ShortSequences DEF EndOfFrames, Return, Ordered, Counted, InHand,
     ReceiverAlive, HungUp, Waiting, Running, Blamed, OneSessionAtATime,
     NoAcceptedFrameLost
<1>5. CASE BrokenPipe
  BY <1>5, ShortSequences DEF BrokenPipe, Return, Ordered, Counted, InHand,
     ReceiverAlive, HungUp, Waiting, Running, Blamed, OneSessionAtATime,
     NoAcceptedFrameLost
<1>6. CASE Fail
  BY <1>6, ShortSequences DEF Fail, Return, Ordered, Counted, InHand,
     ReceiverAlive, HungUp, Waiting, Running, Blamed, OneSessionAtATime,
     NoAcceptedFrameLost
<1>7. CASE ReportStatus
  <2>1. StatusOf(outcome) \in {"Closed", "Failed"} BY DEF StatusOf
  <2>2. TypeOK' BY <1>7, <2>1, AppendProperties DEF ReportStatus
  <2>3. Waiting' BY <1>7, ShortSequences
    DEF ReportStatus, Waiting, StatusOf, HungUp, ReceiverAlive
  <2>4. Running' BY <1>7, ShortSequences DEF ReportStatus, Running
  <2> QED BY <1>7, <2>2, <2>3, <2>4
     DEF ReportStatus, Ordered, Counted, InHand, ReceiverAlive, HungUp,
         Blamed, OneSessionAtATime, NoAcceptedFrameLost
<1>8. CASE Panic
  BY <1>8, ShortSequences DEF Panic, Ordered, Counted, InHand, ReceiverAlive,
     HungUp, Waiting, Running, Blamed, OneSessionAtATime, NoAcceptedFrameLost
<1> QED BY <1>1, <1>2, <1>3, <1>4, <1>5, <1>6, <1>7, <1>8 DEF SinkNext

(* What check_sink finds at the head of one of the three loops. *)
LEMMA CheckSinkCases ==
  ASSUME SupervisorInv, main \in {"top", "retry", "session"}, TakeStatus
  PROVE  /\ statuses' = << >>
         /\ \/ CheckSink = "None" /\ sink # "ended"
            \/ CheckSink = "Ok" /\ sink = "ended" /\ outcome = "BrokenPipe"
            \/ /\ CheckSink \in {"Sink", "SinkStopped"}
               /\ sink = "ended" /\ outcome \in {"Failed", "Panicked"}
<1> USE DEF SupervisorInv, TypeOK, SinkTypeOK
<1>1. /\ sink # "ended" => statuses = << >>
      /\ sink = "ended" => statuses = << >> \/ statuses = << StatusOf(outcome) >>
      /\ sink = "ended" /\ statuses = << >> => outcome = "Panicked"
  BY DEF Running
<1>2. sink = "ended" => outcome \in {"BrokenPipe", "Failed", "Panicked"}
  BY DEF HungUp, ReceiverAlive
<1>3. CASE statuses = << >>
  BY <1>1, <1>2, <1>3 DEF CheckSink, StatusOpen, TakeStatus
<1>4. CASE sink = "ended" /\ statuses = << StatusOf(outcome) >>
  <2>1. /\ statuses # << >> /\ statuses' = << >>
        /\ Head(statuses) = IF outcome = "BrokenPipe" THEN "Closed" ELSE "Failed"
    BY <1>2, <1>4, ShortSequences DEF TakeStatus, StatusOf
  <2> QED BY <1>2, <1>4, <2>1 DEF CheckSink
<1> QED BY <1>1, <1>3, <1>4

(* The main thread's steps. *)
LEMMA MainStep ==
  ASSUME SupervisorInv, Main PROVE SupervisorInv'
<1> USE DEF SupervisorInv, TypeOK, SinkTypeOK, Capacity
<1>1. CASE Start
  BY <1>1, ShortSequences DEF Start, SinkAnswered, WaitForSink, StatusOpen,
     TakeStatus, ReturnWith, Counters, Environment, Ordered, Counted, InHand,
     ReceiverAlive, HungUp, Waiting, Running, Blamed, OneSessionAtATime,
     NoAcceptedFrameLost
<1>2. CASE Top
  <2>1. CASE stopping
    BY <1>2, <2>1 DEF Top, BreakWith, EndSession, sinkVars, Counters,
       Environment, Ordered, Counted, InHand, ReceiverAlive, HungUp, Waiting,
       Running, Blamed, OneSessionAtATime, NoAcceptedFrameLost
  <2>2. CASE ~stopping
    <3>1. TakeStatus /\ main \in {"top", "retry", "session"}
      BY <1>2, <2>2 DEF Top
    <3>2. statuses' \in Seq({"Ready", "Closed", "Failed"})
      BY <3>1, CheckSinkCases, EmptySeq
    <3> QED BY <1>2, <2>2, <3>1, <3>2, CheckSinkCases, SMTT(60)
       DEF Top, TakeStatus, BreakWith, ReturnWith, EndSession, Counters,
           Environment, Ordered, Counted, InHand, ReceiverAlive, HungUp,
           Waiting, Running, Blamed, OneSessionAtATime, NoAcceptedFrameLost
  <2> QED BY <2>1, <2>2
<1>3. CASE Opened
  BY <1>3 DEF Opened, FirstDelay, LongestDelay, sinkVars, Counters,
     Environment, Ordered, Counted, InHand, ReceiverAlive, HungUp, Waiting,
     Running, Blamed, OneSessionAtATime, NoAcceptedFrameLost
<1>4. CASE OpenFails
  <2>1. PICK error \in OpenErrors :
          \/ main' = "retry" /\ result' = result
          \/ main' = "drop" /\ result' = error
    BY <1>4 DEF OpenFails, BreakWith
  <2>2. error \in {"NoCamera", "AmbiguousCamera", "NoDevice", "Io", "Timeout",
                   "Refused"}
    BY DEF OpenErrors
  <2>3. /\ main = "open"
        /\ UNCHANGED << sinkVars, session, ended, retry_delay, Counters,
                        Environment >>
    BY <1>4 DEF OpenFails
  <2> QED BY <2>1, <2>2, <2>3 DEF sinkVars, Counters, Environment, Ordered,
     Counted, InHand, ReceiverAlive, HungUp, Waiting, Running, Blamed,
     OneSessionAtATime, NoAcceptedFrameLost
<1>5. CASE RetryWatches
  <2>1. CASE stopping
    BY <1>5, <2>1 DEF RetryWatches, BreakWith, EndSession, sinkVars, Counters,
       Environment, Ordered, Counted, InHand, ReceiverAlive, HungUp, Waiting,
       Running, Blamed, OneSessionAtATime, NoAcceptedFrameLost
  <2>2. CASE ~stopping
    <3>1. TakeStatus /\ main \in {"top", "retry", "session"}
      BY <1>5, <2>2 DEF RetryWatches
    <3>2. statuses' \in Seq({"Ready", "Closed", "Failed"})
      BY <3>1, CheckSinkCases, EmptySeq
    <3> QED BY <1>5, <2>2, <3>1, <3>2, CheckSinkCases, SMTT(60)
       DEF RetryWatches, TakeStatus, BreakWith, ReturnWith, EndSession, Counters,
           Environment, Ordered, Counted, InHand, ReceiverAlive, HungUp,
           Waiting, Running, Blamed, OneSessionAtATime, NoAcceptedFrameLost
  <2> QED BY <2>1, <2>2
<1>6. CASE RetryElapses
  BY <1>6 DEF RetryElapses, FirstDelay, LongestDelay, sinkVars, Counters,
     Environment, Ordered, Counted, InHand, ReceiverAlive, HungUp, Waiting,
     Running, Blamed, OneSessionAtATime, NoAcceptedFrameLost
<1>7. CASE SessionTop
  <2>1. CASE stopping
    BY <1>7, <2>1 DEF SessionTop, BreakWith, EndSession, sinkVars, Counters,
       Environment, Ordered, Counted, InHand, ReceiverAlive, HungUp, Waiting,
       Running, Blamed, OneSessionAtATime, NoAcceptedFrameLost
  <2>2. CASE ~stopping
    <3>1. TakeStatus /\ main \in {"top", "retry", "session"}
      BY <1>7, <2>2 DEF SessionTop
    <3>2. statuses' \in Seq({"Ready", "Closed", "Failed"})
      BY <3>1, CheckSinkCases, EmptySeq
    <3> QED BY <1>7, <2>2, <3>1, <3>2, CheckSinkCases, SMTT(60)
       DEF SessionTop, TakeStatus, BreakWith, ReturnWith, EndSession, Counters,
           Environment, Ordered, Counted, InHand, ReceiverAlive, HungUp,
           Waiting, Running, Blamed, OneSessionAtATime, NoAcceptedFrameLost
  <2> QED BY <2>1, <2>2
<1>8. CASE Poll
  BY <1>8 DEF Poll, EndSession, sinkVars, Counters, Environment, Ordered,
     Counted, InHand, ReceiverAlive, HungUp, Waiting, Running, Blamed,
     OneSessionAtATime, NoAcceptedFrameLost
<1>9. CASE Frame
  <2>1. produced' = produced + 1 /\ main = "events" BY <1>9 DEF Frame
  <2>2. CASE TrySend = "Ok"
    <3>1. /\ channel = << >> /\ channel' = << produced' >>
          /\ ReceiverAlive /\ frames' = frames + 1
          /\ UNCHANGED << sink, held, sender, statuses, outcome, written,
                          queue_drops, main, ended, session, result,
                          retry_delay, Environment >>
      <4>1. ReceiverAlive /\ Len(channel) = 0
        <5>1. ReceiverAlive /\ Len(channel) # 1 BY <2>2 DEF TrySend
        <5>2. channel \in Seq(Nat) /\ Len(channel) <= 1 OBVIOUS
        <5>3. Len(channel) = 0 BY <5>1, <5>2, ShortSequences
        <5> QED BY <5>1, <5>3
      <4>2. channel = << >> BY <4>1, ShortSequences
      <4>3. Send(produced') /\ frames' = frames + 1
            /\ UNCHANGED << queue_drops, main, ended, session, result,
                            retry_delay, Environment >>
        BY <1>9, <2>2 DEF Frame
      <4> QED BY <4>1, <4>2, <4>3, ShortSequences DEF Send
    <3>2. channel' \in Seq(Nat) /\ Len(channel') = 1 /\ channel'[1] = produced'
      BY <2>1, <3>1, ShortSequences, AppendProperties, EmptySeq
    <3>3. Ordered' BY <2>1, <3>1, <3>2 DEF Ordered
    <3>4. Counted' BY <2>1, <3>1, <3>2, ShortSequences
      DEF Counted, InHand, ReceiverAlive
    <3> QED BY <2>1, <3>1, <3>2, <3>3, <3>4
       DEF Environment, Ordered, ReceiverAlive, HungUp, Waiting, Running,
           Blamed, OneSessionAtATime, NoAcceptedFrameLost
  <2>3. CASE TrySend = "Full"
    <3>1. /\ queue_drops' = queue_drops + 1
          /\ UNCHANGED << sinkVars, frames, main, ended, session, result,
                          retry_delay, Environment >>
      BY <1>9, <2>3 DEF Frame
    <3>2. UNCHANGED << sink, held, channel, written >> BY <3>1 DEF sinkVars
    <3>3. Ordered'
      <4>1. ASSUME NEW i \in 1 .. Len(written)
            PROVE  written[i] <= produced' /\ written[i] \in Nat
        BY <2>1 DEF Ordered
      <4>2. channel # << >> => channel[1] \in Nat /\ channel[1] <= produced'
        BY <2>1, ShortSequences DEF Ordered
      <4>3. sink = "writing" => held <= produced'
        BY <2>1 DEF Ordered
      <4> QED BY <3>2, <4>1, <4>2, <4>3 DEF Ordered
    <3> QED BY <2>1, <3>1, <3>3 DEF sinkVars, Environment, Counted, InHand,
         ReceiverAlive, HungUp, Waiting, Running, Blamed, OneSessionAtATime,
         NoAcceptedFrameLost
  <2>4. CASE TrySend = "Disconnected"
    BY <1>9, <2>1, <2>4, SMTT(60)
       DEF Frame, EndSession, sinkVars, Environment, Ordered, Counted,
           InHand, ReceiverAlive, HungUp, Waiting, Running, Blamed,
           OneSessionAtATime, NoAcceptedFrameLost
  <2> QED BY <2>2, <2>3, <2>4 DEF TrySend
<1>10. CASE CameraEnds
  BY <1>10 DEF CameraEnds, EndSession, sinkVars, Counters, Environment,
     Ordered, Counted, InHand, ReceiverAlive, HungUp, Waiting, Running,
     Blamed, OneSessionAtATime, NoAcceptedFrameLost
<1>11. CASE BatchDone
  BY <1>11 DEF BatchDone, sinkVars, Counters, Environment, Ordered, Counted,
     InHand, ReceiverAlive, HungUp, Waiting, Running, Blamed,
     OneSessionAtATime, NoAcceptedFrameLost
<1>12. CASE StopSession
  <2>1. /\ main = "stop" /\ session' = "none"
        /\ UNCHANGED << sinkVars, ended, retry_delay, Counters, Environment >>
    BY <1>12 DEF StopSession
  <2>2. \/ /\ main' = "drop"
           /\ \/ result' \in {"Ok", "Disconnected"}
              \/ result' = ended /\ ended \in {"none", "Sink", "SinkStopped"}
        \/ main' = "top" /\ result' = result /\ ended = "Disconnected"
    <3>1. Decide /\ ended \in {"none", "Stopped", "SinkClosed", "Disconnected",
                               "Sink", "SinkStopped"}
      BY <1>12 DEF StopSession
    <3> QED BY <3>1 DEF Decide, BreakWith
  <2>3. TypeOK'
    <3>1. session' \in Ports \cup {"none", "gone"} BY <2>1
    <3> HIDE DEF SinkTypeOK
    <3>2. SinkTypeOK' BY <2>1 DEF sinkVars, SinkTypeOK
    <3>3. /\ main' \in {"drop", "top"}
          /\ result' \in {result, "none", "Ok", "Disconnected", "Sink",
                          "SinkStopped"}
      BY <2>2
    <3> QED BY <2>1, <3>1, <3>2, <3>3 DEF Counters, Environment
  <2>4. Ordered' /\ Counted' /\ HungUp' /\ Waiting'
    BY <2>1, <2>2 DEF sinkVars, Counters, Ordered, Counted, InHand,
       ReceiverAlive, HungUp, Waiting
  <2>5. Running' BY <2>1, <2>2 DEF sinkVars, Running
  <2>6. Blamed' /\ OneSessionAtATime' /\ NoAcceptedFrameLost'
    BY <2>1, <2>2 DEF sinkVars, Counters, Blamed, OneSessionAtATime,
       NoAcceptedFrameLost
  <2> QED BY <2>3, <2>4, <2>5, <2>6
<1>13. CASE HangUp
  <2>1. Counted' /\ HungUp'
    BY <1>13 DEF HangUp, DropSender, Counters, Counted, InHand, ReceiverAlive,
                 HungUp
  <2>2. TypeOK'
    <3>1. sender' \in BOOLEAN BY <1>13, Zenon DEF HangUp, DropSender
    <3>2. SinkTypeOK' BY <1>13, <3>1 DEF HangUp, DropSender
    <3> HIDE DEF SinkTypeOK
    <3> QED BY <1>13, <3>2 DEF HangUp, Counters, Environment
  <2>3. Ordered' /\ Waiting' /\ Running'
    BY <1>13 DEF HangUp, DropSender, Counters, Ordered, Waiting, Running
  <2>4. Blamed' /\ OneSessionAtATime' /\ NoAcceptedFrameLost'
    BY <1>13 DEF HangUp, DropSender, Counters, Blamed, OneSessionAtATime,
       NoAcceptedFrameLost
  <2> QED BY <2>1, <2>2, <2>3, <2>4
<1>14. CASE Join
  BY <1>14 DEF Join, ReturnWith, sinkVars, Counters, Environment, Ordered,
     Counted, InHand, ReceiverAlive, HungUp, Waiting, Running, Blamed,
     OneSessionAtATime, NoAcceptedFrameLost
<1> QED BY <1>1, <1>2, <1>3, <1>4, <1>5, <1>6, <1>7, <1>8, <1>9, <1>10,
           <1>11, <1>12, <1>13, <1>14 DEF Main

LEMMA SupervisorStep == SupervisorInv /\ [Next]_vars => SupervisorInv'
<1> SUFFICES ASSUME SupervisorInv, [Next]_vars PROVE SupervisorInv'
  OBVIOUS
<1>1. CASE Main BY <1>1, MainStep
<1>2. CASE Worker BY <1>2, WorkerStep
<1> USE DEF SupervisorInv, TypeOK, SinkTypeOK, sinkVars, Counters
<1>3. CASE Signal
  <2>1. TypeOK' BY <1>3 DEF Signal
  <2> QED BY <1>3, <2>1 DEF Signal, Ordered, Counted, InHand, ReceiverAlive,
       HungUp, Waiting, Running, Blamed, OneSessionAtATime, NoAcceptedFrameLost
<1>4. CASE PlugOrUnplug
  <2>1. /\ attached' \subseteq Ports
        /\ session' \in {session, "gone"}
        /\ session = "none" => session' = "none"
    BY <1>4, SupervisorAssumption DEF PlugOrUnplug
  <2>2. TypeOK' BY <1>4, <2>1 DEF PlugOrUnplug
  <2> QED BY <1>4, <2>1, <2>2 DEF PlugOrUnplug, Ordered, Counted, InHand,
       ReceiverAlive, HungUp, Waiting, Running, Blamed, OneSessionAtATime,
       NoAcceptedFrameLost
<1>5. CASE UNCHANGED vars
  BY <1>5 DEF vars, mainVars, Ordered, Counted, InHand, ReceiverAlive, HungUp,
     Waiting, Running, Blamed, OneSessionAtATime, NoAcceptedFrameLost
<1> QED BY <1>1, <1>2, <1>3, <1>4, <1>5 DEF Next, Finished

-----------------------------------------------------------------------------
(* run_stream and the worker, for any number of frames: what the frame       *)
(* channel accepted is written, in order and once, unless the output itself  *)
(* ended; no later event of camera, signal or channel can lose it.           *)
THEOREM FrameSafety == Spec => []NoAcceptedFrameLost
<1>1. SupervisorInv => NoAcceptedFrameLost BY DEF SupervisorInv
<1> QED BY <1>1, SupervisorInit, SupervisorStep, PTL DEF Spec

(* run_stream: whatever ends a session, it is stopped before the next is     *)
(* opened and before the program leaves.                                     *)
THEOREM SessionSafety == Spec => []OneSessionAtATime
<1>1. SupervisorInv => OneSessionAtATime BY DEF SupervisorInv
<1> QED BY <1>1, SupervisorInit, SupervisorStep, PTL DEF Spec

(* run_stream, check_sink: a pipe closed downstream is never reported as a   *)
(* failure of the output, in whatever order its two channels close.          *)
THEOREM PipeSafety == Spec => []PipeCloseIsClean
<1>1. SupervisorInv => PipeCloseIsClean
  BY DEF SupervisorInv, Blamed, PipeCloseIsClean
<1> QED BY <1>1, SupervisorInit, SupervisorStep, PTL DEF Spec

-----------------------------------------------------------------------------
(* With --no-reconnect a session that ended leads out of the loop, and the   *)
(* lost camera stays the result.                                             *)
LastSession ==
  no_reconnect /\ ended # "none" =>
    /\ main \in {"stop", "drop", "join", "exit"}
    /\ main \in {"drop", "join"} /\ ended = "Disconnected"
         => result = "Disconnected"

LEMMA LastSessionStep ==
  ASSUME SupervisorInv, LastSession, [Next]_vars
  PROVE  /\ LastSession'
         /\ [no_reconnect =>
              /\ ended # "none" /\ session = "none" => session' = "none"
              /\ main' = "exit" /\ ended = "Disconnected" =>
                   result' \in {"Disconnected", "SinkPanicked"}]_vars
<1> DEFINE Goal ==
       /\ LastSession'
       /\ no_reconnect =>
              /\ ended # "none" /\ session = "none" => session' = "none"
              /\ main' = "exit" /\ ended = "Disconnected" =>
                   result' \in {"Disconnected", "SinkPanicked"}
<1> SUFFICES Goal \/ (LastSession' /\ UNCHANGED vars)
  OBVIOUS
<1> USE DEF LastSession, SupervisorInv, TypeOK, Counters, Environment
<1>1. CASE Start \/ Top \/ OpenFails \/ RetryWatches \/ RetryElapses
  BY <1>1 DEF Start, Top, OpenFails, RetryWatches, RetryElapses, ReturnWith,
     BreakWith, Waiting
<1>2. CASE Opened BY <1>2 DEF Opened
<1>3. CASE SessionTop \/ Poll \/ CameraEnds \/ BatchDone
  BY <1>3 DEF SessionTop, Poll, CameraEnds, BatchDone, EndSession
<1>4. CASE Frame
  <2>1. /\ main = "events" /\ UNCHANGED << session, result, Environment >>
        /\ UNCHANGED << main, ended >> \/ EndSession("SinkClosed")
    BY <1>4 DEF Frame, TrySend
  <2> QED BY <2>1 DEF EndSession
<1>5. CASE StopSession BY <1>5 DEF StopSession, Decide, BreakWith
<1>6. CASE HangUp \/ Join BY <1>6 DEF HangUp, Join, ReturnWith
<1>7. CASE Worker BY <1>7 DEF Worker, mainVars
<1>8. CASE Signal \/ PlugOrUnplug
  BY <1>8, SupervisorAssumption DEF Signal, PlugOrUnplug
<1>9. CASE UNCHANGED vars BY <1>9 DEF vars, mainVars
<1> QED BY <1>1, <1>2, <1>3, <1>4, <1>5, <1>6, <1>7, <1>8, <1>9
        DEF Next, Main, Finished

(* --no-reconnect: after the first session ended no step opens another, and  *)
(* a lost camera is what run_stream returns, whatever signal, pipe or plug   *)
(* comes between the end of the session and the exit.                        *)
THEOREM SingleSessionSafety == Spec => SingleSession
<1>1. Init => LastSession BY DEF Init, LastSession
<1> QED BY <1>1, SupervisorInit, SupervisorStep, LastSessionStep, PTL
        DEF Spec, SingleSession
===============================================================================
