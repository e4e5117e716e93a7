-------------------------- MODULE InitReplayProofs --------------------------
(***************************************************************************)
(* Every plan, every number of polls and of transport commands: what ends  *)
(* a wait is what AckIsReal says, nothing of a plan that is refused        *)
(* reaches the camera, and all of a plan that succeeds does.               *)
(***************************************************************************)
EXTENDS InitReplay, SequenceTheorems, WellFoundedInduction, TLAPS

(* A position of the plan with a mailbox command. *)
Commanding(p) == p \in 1 .. Len(plan) /\ IsCommand(plan[p])

Awaited(p) == AcknowledgementToken(strategy, StartupScanToken(plan[p]))

TypeInv == /\ strategy \in {"LiteralReplay", "ConditionPolling",
                            "PlaybackConditionPolling"}
           /\ plan \in Seq(InitOp)
           /\ position \in Nat /\ polls \in Nat /\ status \in Nat
           /\ text \in DOMAIN Texts /\ quality \in Qualities \cup {NONE}

(* Nothing happens before the plan is loaded. *)
Unloaded == position = 0 => /\ polls = 0 /\ accepted = {} /\ mailbox = NONE
                            /\ echoed = Before /\ transport = NONE

Waiting == polls > 0 => position \in 1 .. Len(plan) /\ Waits(position)

(* What is in the mailbox is the plan's or the other process's. *)
MailboxInv ==
  mailbox # NONE =>
    /\ mailbox.word[2] \in Nat
    /\ \/ mailbox.from = Transport
       \/ /\ Commanding(mailbox.from)
          /\ mailbox.word[2] = plan[mailbox.from].data[62]

TransportInv == transport # NONE => transport.word[2] \in Nat

(* What the status byte echoes has its number. *)
EchoInv == \/ echoed \in {Before, Transport}
           \/ /\ Commanding(echoed)
              /\ \/ status = 16 * NumberOf(plan[echoed]) + 1
                 \/ status = 16 * NumberOf(plan[echoed]) + 9

(* While the status byte is from before, it is the token of every wait that *)
(* is over.                                                                 *)
PassedInv == echoed = Before =>
               \A i \in 1 .. position - 1 : Waits(i) => status = Awaited(i)

IInv == TypeInv /\ Unloaded /\ Waiting /\ MailboxInv /\ TransportInv /\ EchoInv
          /\ PassedInv /\ AckIsReal

-----------------------------------------------------------------------------
LEMMA IsWrite ==
  ASSUME NEW op \in InitOp, op.op = "ControlOut"
  PROVE  op \in ControlOut
<1>1. op \notin ControlIn BY DEF ControlIn
<1>2. op \notin SetAlternate BY DEF SetAlternate
<1>3. QED BY <1>1, <1>2 DEF InitOp

(* The mailbox command of an operation is made of bytes. *)
LEMMA CommandBytes ==
  ASSUME NEW op \in InitOp, IsCommand(op)
  PROVE  op.data \in Seq(Byte) /\ op.data[62] \in 0 .. 255
<1>1. op \in ControlOut BY IsWrite DEF IsCommand
<1>2. op.data \in Seq(Byte) BY <1>1 DEF ControlOut
<1>3. Len(op.data) = 64 BY DEF IsCommand, CommandBlockSize
<1>4. 62 \in 1 .. Len(op.data) BY <1>3
<1>5. op.data[62] \in Byte BY <1>2, <1>4, ElementOfSeq
<1>6. QED BY <1>2, <1>5 DEF Byte

(* A token is 16 times its command's number, and 1. *)
LEMMA TokenIs ==
  ASSUME NEW op \in InitOp, StartupScanToken(op) # NoToken
  PROVE  /\ IsCommand(op)
         /\ StartupScanToken(op) = 16 * NumberOf(op) + 1
         /\ NumberOf(op) \in Nat
<1>1. IsCommand(op) /\ ScanAckToken(op.data) = StartupScanToken(op)
  BY SMT DEF StartupScanToken
<1>2. op.data[62] \in 0 .. 255 BY <1>1, CommandBytes
<1>3. ScanAckToken(op.data) = 16 * (op.data[62] \div 16) + 1
  BY <1>1, SMT DEF ScanAckToken, HighNibble, NoToken
<1>4. QED BY <1>1, <1>2, <1>3, SMT DEF NumberOf

(* end_of_status_poll_run stops at the next operation that is no poll. *)
LEMMA RunEnds ==
  ASSUME NEW operations \in Seq(InitOp), NEW start \in 1 .. Len(operations) + 1
  PROVE  LET end == EndOfStatusPollRun(operations, start)
         IN  /\ end \in start .. Len(operations) + 1
             /\ \A i \in start .. end - 1 : IsStatusPoll(operations[i])
<1> DEFINE Stops == {i \in start .. Len(operations) + 1 :
                       i = Len(operations) + 1 \/ ~IsStatusPoll(operations[i])}
           Good(end) == /\ \A i \in start .. end - 1 : IsStatusPoll(operations[i])
                        /\ end = Len(operations) + 1 \/ ~IsStatusPoll(operations[end])
<1>1. Stops \in SUBSET Nat /\ Len(operations) + 1 \in Stops BY SMT
<1> HIDE DEF Stops
<1>2. PICK end \in Stops : \A m \in Stops : ~ (m < end)
  <2>1. PICK end \in Stops : \A m \in Stops : ~ (<< m, end >> \in OpToRel(<, Nat))
    BY <1>1, NatLessThanWellFounded, WFMin
  <2>2. \A m \in Stops : m < end => << m, end >> \in OpToRel(<, Nat)
    BY <1>1 DEF OpToRel
  <2>3. QED BY <2>1, <2>2
<1>3. end \in start .. Len(operations) + 1 /\ Good(end)
  BY <1>2, SMT DEF Stops
<1>4. \E e \in start .. Len(operations) + 1 : Good(e) BY <1>3
<1>5. EndOfStatusPollRun(operations, start)
        = CHOOSE e \in start .. Len(operations) + 1 : Good(e)
  BY DEF EndOfStatusPollRun
<1> HIDE DEF Good
<1>6. LET e == EndOfStatusPollRun(operations, start)
      IN  e \in start .. Len(operations) + 1 /\ Good(e)
  BY <1>4, <1>5, Zenon
<1>7. QED BY <1>6 DEF Good

(* Replacing the scale factor leaves a plan a plan. *)
LEMMA OverrideType ==
  ASSUME NEW operations \in Seq(InitOp), NEW q \in 0 .. 255
  PROVE  Override(operations, q) \in Seq(InitOp)
<1>1. ASSUME NEW i \in 1 .. Len(operations)
      PROVE  Override(operations, q)[i] \in InitOp
  <2>1. operations[i] \in InitOp BY SMT
  <2>2. CASE i \in ScaleWrites(operations)
    <3>1. operations[i].op = "ControlOut" BY <2>2, SMT DEF ScaleWrites
    <3>2. operations[i] \in ControlOut BY <2>1, <3>1, IsWrite
    <3>3. << q >> \in Seq(Byte) BY SMT DEF Byte
    <3>4. [operations[i] EXCEPT !.data = << q >>] \in ControlOut
      <4> DEFINE Payload == Seq(Byte)
      <4>1. << q >> \in Payload BY <3>3
      <4>2. operations[i] \in [op : {"ControlOut"}, value : Word, index : Word,
                               data : Payload]
        BY <3>2 DEF ControlOut
      <4> HIDE DEF Payload
      <4>3. [operations[i] EXCEPT !.data = << q >>]
              \in [op : {"ControlOut"}, value : Word, index : Word, data : Payload]
        BY <4>1, <4>2
      <4>4. QED BY <4>3 DEF ControlOut, Payload
    <3>5. QED BY <2>1, <3>4, SMT DEF Override, InitOp
  <2>3. CASE i \notin ScaleWrites(operations)
    BY <2>1, <2>3, SMT DEF Override
  <2>4. QED BY <2>2, <2>3
<1>2. Override(operations, q) = [i \in 1 .. Len(operations) |->
                                   Override(operations, q)[i]]
  BY SMT DEF Override
<1>3. Len(operations) \in Nat BY SMT
<1>4. QED BY <1>1, <1>2, <1>3, SMT

(* The awaited tokens of two scans with different numbers differ, and each   *)
(* is the echo of no other number.                                           *)
LEMMA AwaitedIs ==
  ASSUME TypeInv, NEW p \in 1 .. Len(plan), Waits(p)
  PROVE  /\ Commanding(p) /\ NumberOf(plan[p]) \in Nat
         /\ StartupScanToken(plan[p]) # NoToken
         /\ \/ Awaited(p) = 16 * NumberOf(plan[p]) + 1
            \/ Awaited(p) = 16 * NumberOf(plan[p]) + 9
<1>1. plan[p] \in InitOp BY ElementOfSeq DEF TypeInv
<1>2. StartupScanToken(plan[p]) # NoToken BY DEF Waits
<1>3. QED BY <1>1, <1>2, TokenIs
          DEF Commanding, Awaited, AcknowledgementToken

LEMMA CommandingNumber ==
  ASSUME TypeInv, NEW p, Commanding(p)
  PROVE  /\ plan[p].data[62] \in 0 .. 255
         /\ NumberOf(plan[p]) \in Nat
<1>1. plan[p] \in InitOp BY ElementOfSeq DEF TypeInv, Commanding
<1>2. plan[p].data[62] \in 0 .. 255 BY <1>1, CommandBytes DEF Commanding
<1>3. QED BY <1>2, SMT DEF NumberOf

(* An operation that is no startup scan is passed without a wait. *)
LEMMA NoWait ==
  ASSUME NEW p, plan[p].op # "ControlOut"
  PROVE  ~Waits(p)
BY DEF Waits, StartupScanToken, IsCommand

-----------------------------------------------------------------------------
(* Steps that leave the plan, the position and the camera alone. *)
LEMMA Steady ==
  ASSUME IInv, UNCHANGED << options, plan, position, accepted, mailbox, status,
                            echoed, transport >>,
         polls' \in Nat, polls' > 0 => polls > 0
  PROVE  IInv'
BY DEF IInv, TypeInv, Unloaded, Waiting, MailboxInv, TransportInv, EchoInv,
       PassedInv, AckIsReal, Commanding, Awaited, NumberOf, Waits,
       ScansDistinct, options

(* Steps to the next operation, past one that does not wait. *)
LEMMA StepOn ==
  ASSUME IInv, position > 0, polls = 0, ~Waits(position),
         UNCHANGED << options, plan, polls, accepted, status, echoed,
                      transport >>,
         position' = position + 1, MailboxInv'
  PROVE  IInv'
<1>1. PassedInv'
  <2>1. SUFFICES ASSUME echoed = Before, NEW i \in 1 .. position, Waits(i)
                 PROVE  status = Awaited(i)
    BY DEF PassedInv, Waits, Awaited, options, IInv, TypeInv
  <2>2. i # position /\ position \in Nat BY <2>1 DEF IInv, TypeInv
  <2>3. i \in 1 .. position - 1 BY <2>2
  <2>4. QED BY <2>1, <2>3 DEF IInv, PassedInv
<1>2. TypeInv' /\ Unloaded' BY DEF IInv, TypeInv, Unloaded, options
<1>3. Waiting' BY DEF IInv, TypeInv, Waiting
<1>4. TransportInv' BY DEF IInv, TransportInv
<1>5. EchoInv' BY DEF IInv, EchoInv, Commanding, NumberOf
<1>6. AckIsReal' BY DEF IInv, AckIsReal, ScansDistinct, Waits, options, NumberOf
<1>7. QED BY <1>1, <1>2, <1>3, <1>4, <1>5, <1>6 DEF IInv

LEMMA LoadPlanStep == ASSUME IInv, LoadPlan PROVE IInv'
<1> DEFINE parsed == ParseInitPlan(Texts[text])
<1> USE DEF IInv, options, cameraVars, otherVars
<1>1. CASE UNCHANGED << plan, position >>
  BY <1>1, Steady DEF LoadPlan, TypeInv
<1>2. CASE /\ parsed.ok /\ position' = 1
           /\ \/ plan' = parsed.operations
              \/ quality \in ScaleFactor /\ plan' = Override(parsed.operations, quality)
  <2>1. parsed.operations \in Seq(InitOp) BY <1>2, TextsAssumption DEF TypeInv
  <2>2. quality \in ScaleFactor => quality \in 0 .. 255 BY DEF ScaleFactor
  <2> HIDE DEF parsed
  <2>3. plan' \in Seq(InitOp) BY <1>2, <2>1, <2>2, OverrideType
  <2>4. /\ polls = 0 /\ accepted = {} /\ mailbox = NONE /\ echoed = Before
        /\ transport = NONE
        /\ UNCHANGED << strategy, quality, text, polls, accepted, mailbox, status,
                        echoed, transport >>
    BY DEF LoadPlan, Unloaded
  <2>5. TypeInv' BY <1>2, <2>3, <2>4 DEF TypeInv
  <2>6. Unloaded' /\ Waiting' /\ MailboxInv' /\ TransportInv' /\ EchoInv'
    BY <1>2, <2>4 DEF Unloaded, Waiting, MailboxInv, TransportInv, EchoInv
  <2>7. PassedInv' BY <1>2 DEF PassedInv
  <2>8. AckIsReal' BY <2>4 DEF AckIsReal
  <2>9. QED BY <2>5, <2>6, <2>7, <2>8
<1>3. QED BY <1>1, <1>2 DEF LoadPlan

LEMMA WriteStep == ASSUME IInv, Write PROVE IInv'
<1> USE DEF options, otherVars
<1>1. position \in 1 .. Len(plan) /\ polls = 0 BY DEF Write, Ready, IInv, TypeInv
<1>2. MailboxInv'
  <2>1. CASE IsCommand(plan[position])
    <3>1. mailbox' = [word |-> SubSeq(plan[position].data, 61, 64),
                      from |-> position]
      BY <2>1 DEF Write
    <3>2. Commanding(position) BY <1>1, <2>1 DEF Commanding
    <3>3. plan[position].data[62] \in 0 .. 255
      BY <3>2, CommandingNumber DEF IInv
    <3>4. plan[position].data \in Seq(Byte) /\ Len(plan[position].data) = 64
      <4>1. plan[position] \in InitOp BY <1>1, ElementOfSeq DEF IInv, TypeInv
      <4>2. QED BY <2>1, <4>1, CommandBytes DEF IsCommand, CommandBlockSize
    <3>5. SubSeq(plan[position].data, 61, 64)[2] = plan[position].data[62]
      BY <3>4, SMT
    <3>6. mailbox'.word[2] = plan[position].data[62] /\ mailbox'.from = position
      BY <3>1, <3>5
    <3>7. plan' = plan BY DEF Write
    <3>8. plan[position].data[62] \in Nat BY <3>3
    <3>9. position \in 1 .. Len(plan') /\ IsCommand(plan'[position])
      BY <3>2, <3>7 DEF Commanding
    <3>10. QED BY <3>6, <3>7, <3>8, <3>9 DEF MailboxInv, Commanding
  <2>2. CASE ~IsCommand(plan[position])
    BY <2>2 DEF Write, IInv, MailboxInv, Commanding
  <2>3. QED BY <2>1, <2>2
<1>3. CASE Waits(position)
  <2>1. /\ polls' = 1 /\ UNCHANGED << strategy, quality, text, plan, position,
                                       accepted, status, echoed, transport >>
    BY <1>3 DEF Write
  <2>2. TypeInv' /\ Unloaded' /\ Waiting' /\ TransportInv' /\ EchoInv'
    BY <1>1, <1>3, <2>1 DEF IInv, TypeInv, Unloaded, Waiting, TransportInv,
                            EchoInv, Waits, Commanding, NumberOf
  <2>3. PassedInv' /\ AckIsReal'
    BY <2>1 DEF IInv, PassedInv, Waits, Awaited, AckIsReal, ScansDistinct,
                NumberOf
  <2>4. QED BY <1>2, <2>2, <2>3 DEF IInv
<1>4. CASE ~Waits(position)
  <2>1. /\ position' = position + 1
        /\ UNCHANGED << strategy, quality, text, plan, polls, accepted, status,
                        echoed, transport >>
    BY <1>4 DEF Write
  <2>2. QED BY <1>1, <1>2, <1>4, <2>1, StepOn
<1>5. QED BY <1>3, <1>4

(* The step the theorem is about: the status byte is the awaited token. *)
LEMMA AcknowledgedStep == ASSUME IInv, Acknowledged PROVE IInv'
<1> DEFINE end == EndOfStatusPollRun(plan, position + 1)
           a == [command |-> position, echo |-> echoed]
<1>1. /\ position \in 1 .. Len(plan) /\ Waits(position) /\ status = Awaited(position)
  BY DEF Acknowledged, IInv, Waiting, Token, Awaited, TypeInv
<1>2. /\ accepted' = accepted \cup {a} /\ position' = end /\ polls' = 0
      /\ UNCHANGED << strategy, quality, text, plan, mailbox, status, echoed,
                      transport >>
  BY DEF Acknowledged, options, cameraVars, otherVars
<1>3. /\ end \in position + 1 .. Len(plan) + 1
      /\ \A i \in position + 1 .. end - 1 : IsStatusPoll(plan[i])
  <2>1. position + 1 \in 1 .. Len(plan) + 1 BY <1>1
  <2>2. plan \in Seq(InitOp) BY DEF IInv, TypeInv
  <2>3. QED BY <2>1, <2>2, RunEnds
<1> HIDE DEF end
<1>4. \A i \in position + 1 .. end - 1 : ~Waits(i)
  BY <1>3, NoWait DEF IsStatusPoll
<1>5. TypeInv' /\ Unloaded' /\ Waiting' /\ MailboxInv' /\ TransportInv' /\ EchoInv'
  BY <1>1, <1>2, <1>3 DEF IInv, TypeInv, Unloaded, Waiting, MailboxInv,
                          TransportInv, EchoInv, Commanding, NumberOf
<1>6. PassedInv'
  <2>1. SUFFICES ASSUME echoed = Before, NEW i \in 1 .. end - 1, Waits(i)
                 PROVE  status = Awaited(i)
    BY <1>2 DEF PassedInv, Waits, Awaited
  <2>2. i \notin position + 1 .. end - 1 BY <1>4, <2>1
  <2>3. i \in 1 .. position - 1 \/ i = position BY <1>1, <1>3, <2>1, <2>2
  <2>4. QED BY <1>1, <2>1, <2>3 DEF IInv, PassedInv
<1>7. ASSUME ScansDistinct
      PROVE  \/ echoed = position
             \/ echoed = Transport
             \/ echoed = Before /\ \A i \in 1 .. position - 1 : ~Waits(i)
  <2>1. CASE echoed = Before
    <3>1. SUFFICES ASSUME NEW i \in 1 .. position - 1, Waits(i) PROVE FALSE
      BY <2>1
    <3>2. i \in 1 .. Len(plan) /\ i # position BY <1>1
    <3>3. Awaited(i) = Awaited(position) BY <1>1, <2>1, <3>1 DEF IInv, PassedInv
    <3>4. NumberOf(plan[i]) = NumberOf(plan[position])
      <4>1. /\ NumberOf(plan[i]) \in Nat
            /\ \/ Awaited(i) = 16 * NumberOf(plan[i]) + 1
               \/ Awaited(i) = 16 * NumberOf(plan[i]) + 9
        BY <3>1, <3>2, AwaitedIs DEF IInv
      <4>2. /\ NumberOf(plan[position]) \in Nat
            /\ \/ Awaited(position) = 16 * NumberOf(plan[position]) + 1
               \/ Awaited(position) = 16 * NumberOf(plan[position]) + 9
        BY <1>1, AwaitedIs DEF IInv
      <4>3. QED BY <3>3, <4>1, <4>2
    <3>5. IsCommand(plan[i]) /\ StartupScanToken(plan[position]) # NoToken
      BY <1>1, <3>1, <3>2, AwaitedIs DEF IInv, Commanding
    <3>6. QED BY <1>1, <1>7, <3>2, <3>4, <3>5 DEF ScansDistinct
  <2>2. CASE echoed # Before /\ echoed # Transport
    <3>1. /\ Commanding(echoed)
          /\ \/ status = 16 * NumberOf(plan[echoed]) + 1
             \/ status = 16 * NumberOf(plan[echoed]) + 9
      BY <2>2 DEF IInv, EchoInv
    <3>2. NumberOf(plan[echoed]) \in Nat BY <3>1, CommandingNumber DEF IInv
    <3>3. NumberOf(plan[echoed]) = NumberOf(plan[position])
      BY <1>1, <3>1, <3>2, AwaitedIs DEF IInv
    <3>4. StartupScanToken(plan[position]) # NoToken
      BY <1>1, AwaitedIs DEF IInv
    <3>5. QED BY <1>1, <1>7, <3>1, <3>3, <3>4 DEF ScansDistinct, Commanding
  <2>3. QED BY <2>1, <2>2
<1>8. AckIsReal'
  <2>1. SUFFICES ASSUME NEW b \in accepted', ScansDistinct
                 PROVE  \/ b.echo = b.command
                        \/ b.echo = Transport
                        \/ b.echo = Before
                             /\ \A i \in 1 .. b.command - 1 : ~Waits(i)
    BY <1>2 DEF AckIsReal, ScansDistinct, NumberOf, Waits
  <2>2. CASE b \in accepted BY <2>1, <2>2 DEF IInv, AckIsReal
  <2>3. CASE b = a BY <1>7, <2>1, <2>3
  <2>4. QED BY <1>2, <2>2, <2>3
<1>9. QED BY <1>5, <1>6, <1>8 DEF IInv

LEMMA TransportReadsStep == ASSUME IInv, TransportReads PROVE IInv'
<1>1. PICK command \in Commands, given \in 0 .. 15 \cup {NONE} :
        transport' = [word |-> Encode(IF given = NONE THEN status \div 16 ELSE given,
                                      command), written |-> FALSE]
  BY DEF TransportReads
<1>2. \A n \in Nat : Encode(n, command)[2] \in Nat BY DEF Encode
<1>3. (IF given = NONE THEN status \div 16 ELSE given) \in Nat
  BY DEF IInv, TypeInv
<1>4. transport'.word[2] \in Nat BY <1>1, <1>2, <1>3
<1>5. UNCHANGED << strategy, quality, text, plan, position, polls, accepted, mailbox,
                   status, echoed >>
  BY DEF TransportReads, hostVars, cameraVars, options
<1>6. TransportInv' /\ position > 0
  BY <1>4 DEF TransportInv, TransportReads, TransportMayStart
<1>7. QED
  BY <1>5, <1>6
     DEF IInv, TypeInv, Unloaded, Waiting, MailboxInv, EchoInv, PassedInv,
         AckIsReal, Commanding, Awaited, NumberOf, Waits, ScansDistinct

LEMMA TransportWritesStep == ASSUME IInv, TransportWrites PROVE IInv'
<1>1. /\ mailbox' = [word |-> transport.word, from |-> Transport]
      /\ transport' = [transport EXCEPT !.written = TRUE]
      /\ UNCHANGED << strategy, quality, text, plan, position, polls, accepted,
                      status, echoed >>
  BY DEF TransportWrites, hostVars, options
<1>2. MailboxInv' BY <1>1 DEF TransportWrites, IInv, TransportInv, MailboxInv
<1>3. TransportInv' BY <1>1 DEF TransportWrites, IInv, TransportInv
<1>4. position # 0 BY DEF TransportWrites, IInv, Unloaded
<1>5. QED
  BY <1>1, <1>2, <1>3, <1>4
     DEF IInv, TypeInv, Unloaded, Waiting, EchoInv, PassedInv,
         AckIsReal, Commanding, Awaited, NumberOf, Waits, ScansDistinct

LEMMA CameraEchoesStep == ASSUME IInv, CameraEchoes PROVE IInv'
<1>1. /\ mailbox # NONE /\ mailbox' = NONE /\ echoed' = mailbox.from
      /\ status' = 16 * (mailbox.word[2] \div 16)
                     + IF mode = "record" THEN 1 ELSE 9
      /\ UNCHANGED << strategy, quality, text, plan, position, polls, accepted,
                      transport >>
  BY DEF CameraEchoes, hostVars, options, otherVars, HighNibble
<1>2. mailbox.word[2] \in Nat BY <1>1 DEF IInv, MailboxInv
<1>3. TypeInv' BY <1>1, <1>2 DEF IInv, TypeInv
<1>4. EchoInv'
  <2>1. CASE mailbox.from = Transport BY <1>1, <2>1 DEF EchoInv
  <2>2. CASE /\ Commanding(mailbox.from)
             /\ mailbox.word[2] = plan[mailbox.from].data[62]
    BY <1>1, <2>2 DEF EchoInv, Commanding, NumberOf
  <2>3. QED BY <1>1, <2>1, <2>2 DEF IInv, MailboxInv
<1>5. echoed' # Before
  BY <1>1 DEF IInv, MailboxInv, Commanding, Before, Transport
<1>6. PassedInv' BY <1>5 DEF PassedInv
<1>7. position # 0 BY <1>1 DEF IInv, Unloaded
<1>8. Unloaded' /\ Waiting' /\ MailboxInv' /\ TransportInv'
  BY <1>1, <1>7 DEF IInv, TypeInv, Unloaded, Waiting, MailboxInv, TransportInv,
                    Waits
<1>9. AckIsReal'
  BY <1>1 DEF IInv, AckIsReal, ScansDistinct, Waits, NumberOf
<1>10. QED BY <1>3, <1>4, <1>6, <1>8, <1>9 DEF IInv

LEMMA AckInit == Init => IInv
BY EmptySeq, SMT
   DEF Init, IInv, TypeInv, Unloaded, Waiting, MailboxInv, TransportInv,
       EchoInv, PassedInv, AckIsReal

LEMMA AckStep == IInv /\ [Next]_vars => IInv'
<1> SUFFICES ASSUME IInv, [Next]_vars PROVE IInv'
  OBVIOUS
<1> USE DEF hostVars, cameraVars, otherVars
<1>1. CASE LoadPlan BY <1>1, LoadPlanStep
<1>2. CASE Read \/ SetInterface
  <2>1. /\ position > 0 /\ polls = 0 /\ position' = position + 1
        /\ plan[position].op # "ControlOut"
        /\ UNCHANGED << options, plan, polls, accepted, mailbox, status, echoed,
                        transport >>
    BY <1>2 DEF Read, SetInterface, Ready
  <2>2. MailboxInv' BY <2>1 DEF IInv, MailboxInv, Commanding
  <2>3. QED BY <2>1, <2>2, NoWait, StepOn
<1>3. CASE Write BY <1>3, WriteStep
<1>4. CASE Acknowledged BY <1>4, AcknowledgedStep
<1>5. CASE RequestFails \/ PollTimesOut \/ PlanEnds \/ Finished
            \/ UNCHANGED vars
  <2>1. UNCHANGED << options, plan, position, polls, accepted, mailbox, status,
                     echoed, transport >>
    BY <1>5 DEF RequestFails, PollTimesOut, PlanEnds, Finished, vars
  <2>2. QED BY <2>1, Steady DEF IInv, TypeInv
<1>6. CASE PollAgain
  BY <1>6, Steady DEF PollAgain, IInv, TypeInv
<1>7. CASE CameraEchoes BY <1>7, CameraEchoesStep
<1>8. CASE TransportReads BY <1>8, TransportReadsStep
<1>9. CASE TransportWrites BY <1>9, TransportWritesStep
<1>10. CASE TransportWritesNothing
  BY <1>10, Steady DEF TransportWritesNothing, IInv, TypeInv
<1>11. CASE TransportReturns
  <2>1. /\ transport' = NONE
        /\ UNCHANGED << strategy, quality, text, plan, position, polls, accepted,
                        mailbox, status, echoed >>
    BY <1>11 DEF TransportReturns, options
  <2>2. QED
    BY <2>1
       DEF IInv, TypeInv, Unloaded, Waiting, MailboxInv, TransportInv, EchoInv,
           PassedInv, AckIsReal, Commanding, Awaited, NumberOf, Waits,
           ScansDistinct
<1>12. QED
  BY <1>1, <1>2, <1>3, <1>4, <1>5, <1>6, <1>7, <1>8, <1>9, <1>10, <1>11 DEF Next

(* replay_initialization: whatever the plan, the camera's pace and the       *)
(* transport commands run meanwhile, a wait ends with its own echo, or for   *)
(* the reasons AckIsReal names.                                              *)
THEOREM AckSafety == Spec => []AckIsReal
<1>1. IInv => AckIsReal BY DEF IInv
<1> QED BY <1>1, AckInit, AckStep, PTL DEF Spec

(* send_transport_command: no transport command, whatever its number, is    *)
(* taken for a scan.                                                        *)
THEOREM TransportIsNoScan ==
  \A n \in 0 .. 15, c \in TransportCommand :
    ScanAckToken(CommandBlock(Encode(n, c))) = NoToken
<1> SUFFICES ASSUME NEW n \in 0 .. 15, NEW c \in TransportCommand
             PROVE  ScanAckToken(CommandBlock(Encode(n, c))) = NoToken
  OBVIOUS
<1> DEFINE zeros == [i \in 1 .. 60 |-> 0]
           word == Encode(n, c)
<1>1. word \in Seq(Int) BY DEF Encode, CommandByte, TransportCommand
<1>2. Len(word) = 4 /\ word[2] % 16 # 9 BY DEF Encode
<1>3. zeros \in Seq(Int) BY SMT
<1>4. Len(zeros) = 60 BY SMT
<1> HIDE DEF zeros, word
<1>5. (zeros \o word)[62] = word[2]
  <2>1. \A i \in 1 .. Len(zeros) + Len(word) :
          (zeros \o word)[i] = IF i <= Len(zeros) THEN zeros[i]
                               ELSE word[i - Len(zeros)]
    BY <1>1, <1>3, ConcatProperties, Zenon
  <2>2. /\ 62 \in 1 .. Len(zeros) + Len(word) /\ ~ (62 <= Len(zeros))
        /\ 62 - Len(zeros) = 2
    BY <1>2, <1>4, SMT
  <2>3. QED BY <2>1, <2>2, Zenon
<1>6. CommandBlock(word) = zeros \o word
  BY DEF CommandBlock, zeros, CommandWordOffset
<1>7. CommandBlock(word)[62] % 16 # 9 BY <1>2, <1>5, <1>6, Zenon
<1>8. ScanAckToken(CommandBlock(word)) = NoToken
  <2> HIDE DEF CommandBlock
  <2> QED BY <1>7 DEF ScanAckToken
<1>9. QED BY <1>8 DEF word
-----------------------------------------------------------------------------
(* w lists the set P of n numbers in increasing order. *)
Enumerates(w, n, P) == /\ w \in [1 .. n -> P]
                       /\ \A i, j \in 1 .. n : i < j => w[i] < w[j]
                       /\ \A p \in P : \E i \in 1 .. n : w[i] = p

LEMMA LeastNumber ==
  ASSUME NEW S \in SUBSET Nat, S # {}
  PROVE  \E x \in S : \A m \in S : ~ (m < x)
<1>1. PICK x \in S : \A m \in S : ~ (<< m, x >> \in OpToRel(<, Nat))
  BY NatLessThanWellFounded, WFMin
<1>2. \A m \in S : m < x => << m, x >> \in OpToRel(<, Nat)
  BY DEF OpToRel
<1> QED BY <1>1, <1>2

LEMMA EnumerateOne ==
  ASSUME NEW n \in Nat, NEW P \in SUBSET Nat, NEW w, Enumerates(w, n, P),
         NEW p \in Nat, \A q \in P : q < p
  PROVE  Enumerates([i \in 1 .. n + 1 |-> IF i = n + 1 THEN p ELSE w[i]],
                    n + 1, P \cup {p})
<1> DEFINE v == [i \in 1 .. n + 1 |-> IF i = n + 1 THEN p ELSE w[i]]
<1>1. \A i \in 1 .. n : w[i] \in P /\ w[i] \in Nat /\ v[i] = w[i]
  <2> TAKE i \in 1 .. n
  <2>1. i \in 1 .. n + 1 /\ i # n + 1 OBVIOUS
  <2>2. w[i] \in P BY DEF Enumerates
  <2> QED BY <2>1, <2>2
<1>2. v[n + 1] = p /\ n + 1 \in 1 .. n + 1 OBVIOUS
<1>3. \A i \in 1 .. n + 1 : i \in 1 .. n \/ i = n + 1 OBVIOUS
<1>4. v \in [1 .. n + 1 -> P \cup {p}]
  <2>1. \A i \in 1 .. n + 1 : v[i] \in P \cup {p} BY <1>1, <1>2, <1>3, Zenon
  <2>2. v = [i \in 1 .. n + 1 |-> v[i]] OBVIOUS
  <2> HIDE DEF v
  <2> QED BY <2>1, <2>2, Zenon
<1> HIDE DEF v
<1>5. ASSUME NEW i \in 1 .. n + 1, NEW j \in 1 .. n + 1, i < j PROVE v[i] < v[j]
  <2>1. i \in 1 .. n BY <1>5
  <2>2. CASE j = n + 1 BY <1>1, <1>2, <2>1, <2>2
  <2>3. CASE j \in 1 .. n BY <1>1, <1>5, <2>1, <2>3 DEF Enumerates
  <2> QED BY <1>3, <2>2, <2>3
<1>6. ASSUME NEW q \in P \cup {p} PROVE \E i \in 1 .. n + 1 : v[i] = q
  <2>1. CASE q = p BY <1>2, <2>1
  <2>2. CASE q \in P
    <3>1. PICK i \in 1 .. n : w[i] = q BY <2>2 DEF Enumerates
    <3>2. i \in 1 .. n + 1 OBVIOUS
    <3> QED BY <1>1, <3>1, <3>2
  <2> QED BY <2>1, <2>2
<1>7. Enumerates(v, n + 1, P \cup {p}) BY <1>4, <1>5, <1>6 DEF Enumerates
<1> QED BY <1>7 DEF v

(* Two lists of the same set begin alike ... *)
LEMMA NoFirstDifference ==
  ASSUME NEW n \in Nat, NEW m \in Nat, NEW P \in SUBSET Nat, NEW v, NEW w,
         Enumerates(v, n, P), Enumerates(w, m, P),
         NEW k \in 1 .. n, k \in 1 .. m,
         \A i \in 1 .. n : i < k => v[i] = w[i]
  PROVE  ~ (v[k] < w[k])
<1> SUFFICES ASSUME v[k] < w[k] PROVE FALSE
  OBVIOUS
<1>1. v[k] \in P /\ v[k] \in Nat /\ w[k] \in Nat BY DEF Enumerates
<1>2. PICK i \in 1 .. m : w[i] = v[k] BY <1>1 DEF Enumerates
<1>3. i < k
  <2>1. CASE i = k BY <1>1, <1>2, <2>1
  <2>2. CASE k < i
    <3>1. w[k] < w[i] BY <2>2 DEF Enumerates
    <3> QED BY <1>1, <1>2, <3>1
  <2> QED BY <2>1, <2>2
<1>4. i \in 1 .. n BY <1>3
<1>5. v[i] = v[k] BY <1>2, <1>3, <1>4
<1>6. v[i] < v[k] BY <1>3, <1>4 DEF Enumerates
<1> QED BY <1>1, <1>5, <1>6

(* ... and are equally long. *)
LEMMA NotLonger ==
  ASSUME NEW n \in Nat, NEW m \in Nat, NEW P \in SUBSET Nat, NEW v, NEW w,
         Enumerates(v, n, P), Enumerates(w, m, P),
         \A i \in 1 .. n : i \in 1 .. m => v[i] = w[i]
  PROVE  ~ (n < m)
<1> SUFFICES ASSUME n < m PROVE FALSE
  OBVIOUS
<1>1. n + 1 \in 1 .. m /\ w[n + 1] \in P /\ w[n + 1] \in Nat
  <2>1. n + 1 \in 1 .. m OBVIOUS
  <2> QED BY <2>1 DEF Enumerates
<1>2. PICK i \in 1 .. n : v[i] = w[n + 1] BY <1>1 DEF Enumerates
<1>3. i \in 1 .. m /\ i < n + 1 OBVIOUS
<1>4. w[i] < w[n + 1] BY <1>1, <1>3 DEF Enumerates
<1>5. w[i] = w[n + 1] BY <1>2, <1>3
<1> QED BY <1>1, <1>4, <1>5

LEMMA EnumerationUnique ==
  ASSUME NEW n \in Nat, NEW m \in Nat, NEW P \in SUBSET Nat, NEW v, NEW w,
         Enumerates(v, n, P), Enumerates(w, m, P)
  PROVE  n = m /\ \A i \in 1 .. n : v[i] = w[i]
<1> DEFINE Differ == {i \in 1 .. n : i \in 1 .. m /\ v[i] # w[i]}
<1>1. Differ = {}
  <2> SUFFICES ASSUME Differ # {} PROVE FALSE
    OBVIOUS
  <2>1. Differ \in SUBSET Nat OBVIOUS
  <2> HIDE DEF Differ
  <2>2. PICK k \in Differ : \A i \in Differ : ~ (i < k) BY <2>1, LeastNumber
  <2>3. k \in 1 .. n /\ k \in 1 .. m /\ v[k] # w[k] BY DEF Differ
  <2>4. \A i \in 1 .. n : i < k => v[i] = w[i] BY <2>2, <2>3 DEF Differ
  <2>5. \A i \in 1 .. m : i < k => w[i] = v[i]
    <3>1. \A i \in 1 .. m : i < k => i \in 1 .. n BY <2>3
    <3> QED BY <2>4, <3>1
  <2>6. ~ (v[k] < w[k]) BY <2>3, <2>4, NoFirstDifference
  <2>7. ~ (w[k] < v[k]) BY <2>3, <2>5, NoFirstDifference
  <2>8. v[k] \in Nat /\ w[k] \in Nat BY <2>3 DEF Enumerates
  <2> QED BY <2>3, <2>6, <2>7, <2>8
<1>2. \A i \in 1 .. n : i \in 1 .. m => v[i] = w[i] BY <1>1
<1>3. \A i \in 1 .. m : i \in 1 .. n => w[i] = v[i] BY <1>1
<1>4. ~ (n < m) BY <1>2, NotLonger
<1>5. ~ (m < n) BY <1>3, NotLonger
<1> QED BY <1>2, <1>4, <1>5

(* Subsequence is what its name says. *)
LEMMA SubsequenceIs ==
  ASSUME NEW X, NEW s \in Seq(X), NEW P \in SUBSET (1 .. Len(s))
  PROVE  /\ Subsequence(s, P) \in Seq(X)
         /\ \E w : /\ Enumerates(w, Len(Subsequence(s, P)), P)
                   /\ \A i \in 1 .. Len(Subsequence(s, P)) :
                        Subsequence(s, P)[i] = s[w[i]]
<1> DEFINE Rule(f, N) ==
      f = [n \in 0 .. N |-> IF n = 0 THEN << >>
                            ELSE IF n \in P THEN Append(f[n - 1], s[n])
                            ELSE f[n - 1]]
<1>0. Len(s) \in Nat /\ \A n \in 1 .. Len(s) : s[n] \in X
  BY LenProperties, ElementOfSeq
<1>1. \A N \in Nat : \E f : Rule(f, N)
  <2> DEFINE Bad == {N \in Nat : ~ \E f : Rule(f, N)}
  <2> SUFFICES ASSUME Bad # {} PROVE FALSE
    OBVIOUS
  <2>1. Bad \in SUBSET Nat OBVIOUS
  <2> HIDE DEF Bad
  <2>2. PICK N \in Bad : \A m \in Bad : ~ (m < N) BY <2>1, LeastNumber
  <2>3. CASE N = 0
    <3> DEFINE f == [n \in 0 .. 0 |-> << >>]
    <3>1. Rule(f, 0) OBVIOUS
    <3> QED BY <2>3, <3>1 DEF Bad
  <2>4. CASE N # 0
    <3>1. N \in Nat /\ N - 1 \in Nat /\ N - 1 < N BY <2>1, <2>4
    <3>2. PICK g : Rule(g, N - 1) BY <2>2, <3>1 DEF Bad
    <3> DEFINE f == [n \in 0 .. N |->
                       IF n = N THEN IF N \in P THEN Append(g[N - 1], s[N])
                                     ELSE g[N - 1]
                       ELSE g[n]]
    <3>3. \A n \in 0 .. N : n # N => n \in 0 .. N - 1 /\ f[n] = g[n]
      BY <3>1
    <3>4. f[N] = IF N \in P THEN Append(f[N - 1], s[N]) ELSE f[N - 1]
      BY <3>1
    <3>5. ASSUME NEW n \in 0 .. N
          PROVE  f[n] = IF n = 0 THEN << >>
                        ELSE IF n \in P THEN Append(f[n - 1], s[n]) ELSE f[n - 1]
      <4>1. CASE n = N BY <2>4, <3>4, <4>1
      <4>2. CASE n # N /\ n = 0 BY <3>2, <3>3, <4>2
      <4>3. CASE n # N /\ n # 0
        <5>1. n \in 0 .. N - 1 /\ n - 1 \in 0 .. N - 1 /\ n - 1 \in 0 .. N
              /\ n - 1 # N
          BY <3>1, <4>3
        <5>2. f[n] = g[n] /\ f[n - 1] = g[n - 1] BY <3>3, <4>3, <5>1
        <5>3. g[n] = IF n \in P THEN Append(g[n - 1], s[n]) ELSE g[n - 1]
          BY <3>2, <4>3, <5>1
        <5> HIDE DEF f
        <5> QED BY <4>3, <5>2, <5>3
      <4> QED BY <4>1, <4>2, <4>3
    <3>6. f = [n \in 0 .. N |-> f[n]] OBVIOUS
    <3> HIDE DEF f
    <3>7. Rule(f, N) BY <3>5, <3>6
    <3> QED BY <3>7 DEF Bad
  <2> QED BY <2>3, <2>4
<1> DEFINE f == CHOOSE f : Rule(f, Len(s))
<1>2. Rule(f, Len(s)) BY <1>0, <1>1
<1>3. Subsequence(s, P) = f[Len(s)] BY DEF Subsequence
<1> HIDE DEF f
<1>4. /\ f[0] = << >>
      /\ \A n \in 1 .. Len(s) :
           f[n] = IF n \in P THEN Append(f[n - 1], s[n]) ELSE f[n - 1]
  <2>1. 0 \in 0 .. Len(s) /\ \A n \in 1 .. Len(s) : n \in 0 .. Len(s) /\ n # 0
    BY <1>0
  <2>2. ASSUME NEW n \in 0 .. Len(s)
        PROVE  f[n] = IF n = 0 THEN << >>
                      ELSE IF n \in P THEN Append(f[n - 1], s[n]) ELSE f[n - 1]
    BY <1>2, Zenon
  <2>3. f[0] = << >> BY <2>1, <2>2
  <2>4. ASSUME NEW n \in 1 .. Len(s)
        PROVE  f[n] = IF n \in P THEN Append(f[n - 1], s[n]) ELSE f[n - 1]
    <3>1. n \in 0 .. Len(s) /\ n # 0 BY <2>1
    <3> HIDE DEF Rule
    <3> QED BY <2>2, <3>1
  <2> QED BY <2>3, <2>4
<1> HIDE DEF Rule
<1>5. \A p \in P : p \in Nat /\ 1 <= p /\ p <= Len(s) BY <1>0
<1> DEFINE Upto(N) == {p \in P : p <= N}
           Fine(N) == /\ f[N] \in Seq(X)
                      /\ \E w : /\ Enumerates(w, Len(f[N]), Upto(N))
                                /\ \A i \in 1 .. Len(f[N]) : f[N][i] = s[w[i]]
<1>6. Fine(0)
  <2>1. Len(f[0]) = 0 /\ f[0] \in Seq(X) BY <1>4, EmptySeq
  <2>2. Upto(0) = {}
    <3>1. \A p \in Nat : ~ (1 <= p /\ p <= 0) OBVIOUS
    <3> QED BY <1>5, <3>1, Zenon
  <2>3. Enumerates([i \in 1 .. 0 |-> 0], 0, {})
    <3>1. 1 .. 0 = {} OBVIOUS
    <3> QED BY <3>1 DEF Enumerates
  <2>4. \A i \in 1 .. 0 : FALSE OBVIOUS
  <2> HIDE DEF Upto
  <2> QED BY <2>1, <2>2, <2>3, <2>4
<1>7. ASSUME NEW N \in 1 .. Len(s), Fine(N - 1) PROVE Fine(N)
  <2>1. /\ f[N - 1] \in Seq(X) /\ N - 1 \in Nat /\ N \in Nat
        /\ Len(f[N - 1]) \in Nat /\ Upto(N - 1) \in SUBSET Nat
    <3>1. f[N - 1] \in Seq(X) BY <1>7
    <3>2. Len(f[N - 1]) \in Nat BY <3>1, LenProperties
    <3>3. N - 1 \in Nat /\ N \in Nat BY <1>0
    <3>4. Upto(N - 1) \in SUBSET Nat BY <1>5
    <3> QED BY <3>1, <3>2, <3>3, <3>4
  <2>2. PICK w : /\ Enumerates(w, Len(f[N - 1]), Upto(N - 1))
                 /\ \A i \in 1 .. Len(f[N - 1]) : f[N - 1][i] = s[w[i]]
    BY <1>7
  <2>3. CASE N \in P
    <3>1. f[N] = Append(f[N - 1], s[N]) BY <1>4, <2>3
    <3>2. /\ f[N] \in Seq(X) /\ Len(f[N]) = Len(f[N - 1]) + 1
          /\ f[N][Len(f[N - 1]) + 1] = s[N]
          /\ \A i \in 1 .. Len(f[N - 1]) : f[N][i] = f[N - 1][i]
      BY <1>0, <2>1, <3>1, AppendProperties
    <3>3. Upto(N) = Upto(N - 1) \cup {N}
      <4>1. \A p \in Nat : p <= N <=> p <= N - 1 \/ p = N BY <2>1
      <4> QED BY <1>5, <2>3, <4>1, Zenon
    <3>4. \A q \in Upto(N - 1) : q < N BY <1>5, <2>1
    <3> HIDE DEF Upto
    <3> DEFINE k == Len(f[N - 1])
               v == [i \in 1 .. k + 1 |-> IF i = k + 1 THEN N ELSE w[i]]
    <3>5. Enumerates(v, k + 1, Upto(N - 1) \cup {N})
      BY <2>1, <2>2, <3>4, EnumerateOne
    <3>6. ASSUME NEW i \in 1 .. k + 1 PROVE f[N][i] = s[v[i]]
      <4>1. CASE i = k + 1 BY <3>2, <4>1
      <4>2. CASE i # k + 1
        <5>1. i \in 1 .. k BY <2>1, <4>2
        <5> QED BY <2>2, <3>2, <4>2, <5>1
      <4> QED BY <4>1, <4>2
    <3> HIDE DEF v
    <3> QED BY <3>2, <3>3, <3>5, <3>6
  <2>4. CASE N \notin P
    <3>1. f[N] = f[N - 1] BY <1>4, <2>4
    <3>2. Upto(N) = Upto(N - 1)
      <4>1. \A p \in Nat : p <= N <=> p <= N - 1 \/ p = N BY <2>1
      <4> QED BY <1>5, <2>4, <4>1, Zenon
    <3> HIDE DEF Upto
    <3> QED BY <2>1, <2>2, <3>1, <3>2
  <2> QED BY <2>3, <2>4
<1> HIDE DEF Fine
<1>8. Fine(Len(s))
  <2> DEFINE Bad == {N \in 0 .. Len(s) : ~ Fine(N)}
  <2>0. Len(s) \in 0 .. Len(s) BY <1>0
  <2> SUFFICES ASSUME Bad # {} PROVE FALSE
    BY <2>0
  <2>1. Bad \in SUBSET Nat OBVIOUS
  <2> HIDE DEF Bad
  <2>2. PICK N \in Bad : \A m \in Bad : ~ (m < N) BY <2>1, LeastNumber
  <2>3. N \in 0 .. Len(s) /\ ~ Fine(N) BY DEF Bad
  <2>4. N # 0 BY <1>6, <2>3
  <2>5. N - 1 \in 0 .. Len(s) /\ N - 1 < N /\ N \in 1 .. Len(s)
    BY <1>0, <2>3, <2>4
  <2>6. Fine(N - 1) BY <2>2, <2>5 DEF Bad
  <2> QED BY <1>7, <2>3, <2>5, <2>6
<1>9. Upto(Len(s)) = P BY <1>5
<1> HIDE DEF Upto
<1> QED BY <1>3, <1>8, <1>9 DEF Fine

(* A list of positions in a list. *)
LEMMA EnumerationOfEnumeration ==
  ASSUME NEW m \in Nat, NEW n \in Nat, NEW K \in SUBSET Nat,
         NEW R \in SUBSET (1 .. m), NEW e, NEW w,
         Enumerates(e, m, K), Enumerates(w, n, R),
         NEW P, P = {e[k] : k \in R},
         NEW u, u = [i \in 1 .. n |-> e[w[i]]]
  PROVE  Enumerates(u, n, P)
<1>1. \A i \in 1 .. n : w[i] \in R /\ w[i] \in 1 .. m /\ u[i] = e[w[i]]
  BY DEF Enumerates
<1>2. u \in [1 .. n -> P] BY <1>1
<1>3. ASSUME NEW i \in 1 .. n, NEW j \in 1 .. n, i < j PROVE u[i] < u[j]
  <2>1. w[i] < w[j] BY <1>3 DEF Enumerates
  <2>2. e[w[i]] < e[w[j]] BY <1>1, <2>1 DEF Enumerates
  <2> QED BY <1>1, <2>2
<1>4. ASSUME NEW p \in P PROVE \E i \in 1 .. n : u[i] = p
  <2>1. PICK k \in R : p = e[k] OBVIOUS
  <2>2. PICK i \in 1 .. n : w[i] = k BY DEF Enumerates
  <2> QED BY <1>1, <2>1, <2>2
<1> QED BY <1>2, <1>3, <1>4 DEF Enumerates

-----------------------------------------------------------------------------
(* What an operation that is no read asks of the camera. *)
Request(op) == IF op.op = "SetInterface" THEN [alternate |-> op.alternate]
               ELSE [index |-> op.index, data |-> op.data]

Parsed == ParseInitPlan(Texts[text])

(* The plan that is played is the whole text, with the quality in it. *)
LoadedInv ==
  /\ position = 0 => sent = << >>
  /\ position > 0 =>
       /\ Parsed.ok
       /\ quality = NONE => plan = Parsed.operations
       /\ quality # NONE => /\ quality \in ScaleFactor
                            /\ ScaleWrites(Parsed.operations) # {}
                            /\ plan = Override(Parsed.operations, quality)

(* The command of a wait is written already. *)
Done == IF polls > 0 THEN position ELSE position - 1

Requests(n) == {k \in 1 .. n : plan[k].op # "ControlIn"}

(* So far the requests of the plan were made, in order, and no other. *)
SentInv ==
  /\ sent \in Seq({Request(op) : op \in InitOp})
  /\ \E w : /\ Enumerates(w, Len(sent), Requests(Done))
            /\ \A i \in 1 .. Len(sent) : sent[i] = Request(plan[w[i]])

EndInv == result = "Ok" => position = Len(plan) + 1 /\ polls = 0

FulfilInv == IInv /\ LoadedInv /\ SentInv /\ EndInv

LEMMA BoundsAre ==
  /\ 0 .. Bounds[1] = 0 .. MaxDelay /\ 0 .. Bounds[4] = Word
  /\ 0 .. Bounds[5] = Word /\ 0 .. Bounds[6] = 0 .. 64
<1>1. /\ Bounds[1] = MaxDelay /\ Bounds[4] = 65535
      /\ Bounds[5] = 65535 /\ Bounds[6] = 64
  BY SMT DEF Bounds
<1>2. 0 .. Bounds[4] = Word /\ 0 .. Bounds[5] = Word BY <1>1, SMT DEF Word
<1>3. 0 .. Bounds[1] = 0 .. MaxDelay BY <1>1
<1>4. 0 .. Bounds[6] = 0 .. 64 BY <1>1, SMT
<1> QED BY <1>2, <1>3, <1>4

(* Parsing a row. *)
LEMMA ParsedRow ==
  ASSUME NEW row, ParseRow(row) # Refused
  PROVE  /\ Len(row) = 8
         /\ row[1] \in 0 .. Bounds[1] /\ row[4] \in 0 .. Bounds[4]
         /\ row[5] \in 0 .. Bounds[5] /\ row[6] \in 0 .. Bounds[6]
         /\ \/ /\ row[2] = 1 /\ row[3] = 11 /\ row[5] = 0 /\ row[6] = 0
               /\ ParseRow(row) = [op |-> "SetInterface", alternate |-> row[4] % 256]
            \/ /\ row[2] = 192 /\ row[3] = 136
               /\ ParseRow(row) = [op |-> "ControlIn", value |-> row[4],
                                   index |-> row[5], length |-> row[6]]
            \/ /\ row[2] = 64 /\ row[3] = 136 /\ row[7] # NotHex
               /\ Len(row[7]) = row[6]
               /\ ParseRow(row) = [op |-> "ControlOut", value |-> row[4],
                                   index |-> row[5], data |-> row[7]]
<1> DEFINE Fits == Len(row) = 8 /\ \A f \in 1 .. 6 : row[f] \in 0 .. Bounds[f]
           Alternate == [op |-> "SetInterface", alternate |-> row[4] % 256]
           In == [op |-> "ControlIn", value |-> row[4], index |-> row[5],
                  length |-> row[6]]
           Out == [op |-> "ControlOut", value |-> row[4], index |-> row[5],
                   data |-> row[7]]
<1>1. ParseRow(row) =
        IF ~Fits THEN Refused
        ELSE IF row[2] = 1 /\ row[3] = 11 /\ row[5] = 0 /\ row[6] = 0 THEN Alternate
        ELSE IF row[2] = 192 /\ row[3] = 136 THEN In
        ELSE IF row[2] = 64 /\ row[3] = 136 /\ row[7] # NotHex /\ Len(row[7]) = row[6]
        THEN Out ELSE Refused
  BY Zenon DEF ParseRow
<1> HIDE DEF Fits, Alternate, In, Out
<1>2. Fits BY <1>1
<1>3. \/ /\ row[2] = 1 /\ row[3] = 11 /\ row[5] = 0 /\ row[6] = 0
         /\ ParseRow(row) = Alternate
      \/ row[2] = 192 /\ row[3] = 136 /\ ParseRow(row) = In
      \/ /\ row[2] = 64 /\ row[3] = 136 /\ row[7] # NotHex
         /\ Len(row[7]) = row[6] /\ ParseRow(row) = Out
  BY <1>1, <1>2
<1>4. /\ row[1] \in 0 .. Bounds[1] /\ row[4] \in 0 .. Bounds[4]
      /\ row[5] \in 0 .. Bounds[5] /\ row[6] \in 0 .. Bounds[6] /\ Len(row) = 8
  <2>1. \A f \in 1 .. 6 : row[f] \in 0 .. Bounds[f] BY <1>2 DEF Fits
  <2>2. Len(row) = 8 BY <1>2 DEF Fits
  <2>0. 1 \in 1 .. 6 /\ 4 \in 1 .. 6 /\ 5 \in 1 .. 6 /\ 6 \in 1 .. 6 OBVIOUS
  <2>3. row[1] \in 0 .. Bounds[1] BY <2>0, <2>1, Zenon
  <2>4. row[4] \in 0 .. Bounds[4] BY <2>0, <2>1, Zenon
  <2>5. row[5] \in 0 .. Bounds[5] BY <2>0, <2>1, Zenon
  <2>6. row[6] \in 0 .. Bounds[6] BY <2>0, <2>1, Zenon
  <2> QED BY <2>2, <2>3, <2>4, <2>5, <2>6
<1> QED BY <1>3, <1>4, Zenon DEF Alternate, In, Out

(* The operation of a row is the row's request. *)
LEMMA ParsedRequest ==
  ASSUME NEW row, ParseRow(row) # Refused
  PROVE  LET op == ParseRow(row) IN
         /\ op.op = "ControlIn" <=> row[2] = 192
         /\ row[2] # 192 =>
              /\ Request(op) = RowRequest(row)
              /\ IsScaleRequest(RowRequest(row))
                   <=> /\ op.op = "ControlOut" /\ op.index = ScaleFactorIndex
                       /\ Len(op.data) = 1
         /\ op.op = "ControlOut" => row[2] = 64
<1> DEFINE op == ParseRow(row)
<1>1. CASE /\ row[2] = 1
           /\ op = [op |-> "SetInterface", alternate |-> row[4] % 256]
  <2>1. op.op = "SetInterface" /\ op.alternate = row[4] % 256 BY <1>1
  <2> HIDE DEF op
  <2>2. Request(op) = [alternate |-> row[4] % 256] BY <2>1 DEF Request
  <2>3. RowRequest(row) = [alternate |-> row[4] % 256] BY <1>1 DEF RowRequest
  <2>4. "data" \notin DOMAIN RowRequest(row) BY <2>3
  <2>5. ~IsScaleRequest(RowRequest(row)) BY <2>4 DEF IsScaleRequest
  <2> QED BY <1>1, <2>1, <2>2, <2>3, <2>5 DEF op
<1>2. CASE /\ row[2] = 192
           /\ op = [op |-> "ControlIn", value |-> row[4], index |-> row[5],
                    length |-> row[6]]
  <2>1. op.op = "ControlIn" BY <1>2
  <2> QED BY <1>2, <2>1
<1>3. CASE /\ row[2] = 64
           /\ op = [op |-> "ControlOut", value |-> row[4], index |-> row[5],
                    data |-> row[7]]
  <2>1. op.op = "ControlOut" /\ op.index = row[5] /\ op.data = row[7] BY <1>3
  <2> HIDE DEF op
  <2>2. Request(op) = [index |-> row[5], data |-> row[7]] BY <2>1 DEF Request
  <2>3. RowRequest(row) = [index |-> row[5], data |-> row[7]]
    BY <1>3 DEF RowRequest
  <2>4. /\ "data" \in DOMAIN RowRequest(row) /\ RowRequest(row).index = row[5]
        /\ RowRequest(row).data = row[7]
    BY <2>3
  <2>5. IsScaleRequest(RowRequest(row))
          <=> row[5] = ScaleFactorIndex /\ Len(row[7]) = 1
    BY <2>4 DEF IsScaleRequest
  <2> QED BY <1>3, <2>1, <2>2, <2>3, <2>5 DEF op
<1> QED BY <1>1, <1>2, <1>3, ParsedRow

LEMMA ParsedSupported ==
  ASSUME NEW row, ParseRow(row) # Refused PROVE Supported(row)
<1>1. row[1] \in 0 .. MaxDelay
  <2>1. row[1] \in 0 .. Bounds[1] BY ParsedRow
  <2> QED BY <2>1, BoundsAre, Zenon
<1>2. row[4] \in Word
  <2>1. row[4] \in 0 .. Bounds[4] BY ParsedRow
  <2> QED BY <2>1, BoundsAre, Zenon
<1>3. row[5] \in Word
  <2>1. row[5] \in 0 .. Bounds[5] BY ParsedRow
  <2> QED BY <2>1, BoundsAre, Zenon
<1>4. row[6] \in 0 .. 64
  <2>1. row[6] \in 0 .. Bounds[6] BY ParsedRow
  <2> QED BY <2>1, BoundsAre, Zenon
<1>5. Len(row) = 8 BY ParsedRow
<1>6. \/ << row[2], row[3], row[5], row[6] >> = << 1, 11, 0, 0 >>
      \/ /\ row[3] = 136
         /\ \/ row[2] = 192
            \/ row[2] = 64 /\ row[7] # NotHex /\ Len(row[7]) = row[6]
  <2>1. \/ row[2] = 1 /\ row[3] = 11 /\ row[5] = 0 /\ row[6] = 0
        \/ row[2] = 192 /\ row[3] = 136
        \/ row[2] = 64 /\ row[3] = 136 /\ row[7] # NotHex /\ Len(row[7]) = row[6]
    BY ParsedRow
  <2> QED BY <2>1
<1> QED BY <1>1, <1>2, <1>3, <1>4, <1>5, <1>6, Zenon DEF Supported

(* The operations of a text are those of its rows, in order. *)
LEMMA ParsedPlan ==
  ASSUME NEW t \in DOMAIN Texts
  PROVE  LET lines == Texts[t]
             K == {i \in 1 .. Len(lines) : lines[i] # << >>}
             parsed == ParseInitPlan(lines)
         IN  /\ lines \in Seq({lines[i] : i \in DOMAIN lines})
             /\ Len(lines) \in Nat /\ Len(parsed.operations) \in Nat
             /\ parsed.operations
                  = [k \in 1 .. Len(parsed.operations) |-> parsed.operations[k]]
             /\ \E e : /\ Enumerates(e, Len(parsed.operations), K)
                       /\ \A k \in 1 .. Len(parsed.operations) :
                            parsed.operations[k] = ParseRow(lines[e[k]])
             /\ parsed.ok => \A i \in K : ParseRow(lines[i]) # Refused
<1> DEFINE lines == Texts[t]
           K == {i \in 1 .. Len(lines) : lines[i] # << >>}
           X == {lines[i] : i \in DOMAIN lines}
           parsed == ParseInitPlan(lines)
           kept == Subsequence(lines, K)
<1>1. lines \in Seq(X) BY TextsAssumption
<1>2. Len(lines) \in Nat BY <1>1, LenProperties
<1>3. K \in SUBSET (1 .. Len(lines)) OBVIOUS
<1>4. /\ kept \in Seq(X)
      /\ \E e : /\ Enumerates(e, Len(kept), K)
                /\ \A k \in 1 .. Len(kept) : kept[k] = lines[e[k]]
  <2> HIDE DEF lines, K, X
  <2> QED BY <1>1, <1>3, SubsequenceIs
<1>5. Len(kept) \in Nat BY <1>4, LenProperties
<1> DEFINE ops == [i \in 1 .. Len(kept) |-> ParseRow(kept[i])]
<1>6. /\ parsed.ok <=> \A i \in 1 .. Len(kept) : ops[i] # Refused
      /\ parsed.operations = ops
  BY DEF ParseInitPlan
<1>7. Len(ops) = Len(kept) /\ \A k \in 1 .. Len(kept) : ops[k] = ParseRow(kept[k])
  BY <1>5
<1>8. ops = [k \in 1 .. Len(kept) |-> ops[k]] BY <1>7
<1>9. PICK e : /\ Enumerates(e, Len(kept), K)
               /\ \A k \in 1 .. Len(kept) : kept[k] = lines[e[k]]
  BY <1>4
<1> HIDE DEF ops, parsed, kept, K, X, lines
<1>10. \A k \in 1 .. Len(kept) : ops[k] = ParseRow(lines[e[k]]) BY <1>7, <1>9
<1>11. ASSUME parsed.ok, NEW i \in K PROVE ParseRow(lines[i]) # Refused
  <2>1. PICK k \in 1 .. Len(kept) : e[k] = i BY <1>9 DEF Enumerates
  <2> QED BY <1>6, <1>10, <1>11, <2>1
<1>12. \E d : /\ Enumerates(d, Len(parsed.operations), K)
              /\ \A k \in 1 .. Len(parsed.operations) :
                   parsed.operations[k] = ParseRow(lines[d[k]])
  BY <1>6, <1>7, <1>9, <1>10
<1>13. /\ parsed.operations
            = [k \in 1 .. Len(parsed.operations) |-> parsed.operations[k]]
       /\ Len(parsed.operations) \in Nat
  BY <1>5, <1>6, <1>7, <1>8
<1> QED BY <1>1, <1>2, <1>11, <1>12, <1>13 DEF parsed, K, X, lines

(* Steps that make no request and end nothing well. *)
LEMMA FulfilSteady ==
  ASSUME FulfilInv, UNCHANGED << text, quality, plan, position, sent >>,
         polls' > 0 <=> polls > 0, result' = "Ok" => result = "Ok",
         result' = "Ok" => polls' = polls
  PROVE  LoadedInv' /\ SentInv' /\ EndInv'
<1>1. LoadedInv' BY DEF FulfilInv, LoadedInv, Parsed
<1>2. Done' = Done /\ (\A n : Requests(n)' = Requests(n)) BY DEF Done, Requests
<1>3. SentInv'
  <2>1. sent' \in Seq({Request(op) : op \in InitOp}) BY DEF FulfilInv, SentInv
  <2>2. PICK w : /\ Enumerates(w, Len(sent), Requests(Done))
                 /\ \A i \in 1 .. Len(sent) : sent[i] = Request(plan[w[i]])
    BY DEF FulfilInv, SentInv
  <2>3. Requests(Done)' = Requests(Done) BY <1>2 DEF Requests
  <2> QED BY <2>1, <2>2, <2>3 DEF SentInv
<1>4. EndInv' BY DEF FulfilInv, EndInv
<1> QED BY <1>1, <1>3, <1>4

(* Steps over operations that ask nothing. *)
LEMMA FulfilReads ==
  ASSUME FulfilInv, UNCHANGED << text, quality, plan, sent >>, position > 0,
         position' > 0, Requests(Done)' = Requests(Done), result' # "Ok"
  PROVE  LoadedInv' /\ SentInv' /\ EndInv'
<1>1. LoadedInv'
  <2>1. position # 0 /\ position' # 0 BY DEF FulfilInv, IInv, TypeInv
  <2> QED BY <2>1 DEF FulfilInv, LoadedInv, Parsed
<1>2. SentInv'
  <2>1. sent' \in Seq({Request(op) : op \in InitOp}) BY DEF FulfilInv, SentInv
  <2>2. PICK w : /\ Enumerates(w, Len(sent), Requests(Done))
                 /\ \A i \in 1 .. Len(sent) : sent[i] = Request(plan[w[i]])
    BY DEF FulfilInv, SentInv
  <2> QED BY <2>1, <2>2 DEF SentInv
<1>3. EndInv' BY DEF EndInv
<1> QED BY <1>1, <1>2, <1>3

(* The operation at the position is a request, and is made. *)
LEMMA FulfilRequest ==
  ASSUME FulfilInv, UNCHANGED << text, quality, plan >>, result' # "Ok",
         position \in 1 .. Len(plan), polls = 0,
         plan[position].op # "ControlIn",
         sent' = Append(sent, Request(plan[position])),
         Done' = position, position' > 0
  PROVE  LoadedInv' /\ SentInv' /\ EndInv'
<1>1. /\ plan \in Seq(InitOp) /\ position \in Nat /\ position > 0
      /\ plan[position] \in InitOp
  BY ElementOfSeq DEF FulfilInv, IInv, TypeInv
<1>2. LoadedInv'
  <2>1. position # 0 /\ position' # 0 BY <1>1
  <2> QED BY <1>1, <2>1 DEF FulfilInv, LoadedInv, Parsed
<1>3. SentInv'
  <2> DEFINE R == {Request(op) : op \in InitOp}
             n == Len(sent)
             p == position
  <2>1. sent \in Seq(R) BY DEF FulfilInv, SentInv
  <2>2. n \in Nat BY <2>1, LenProperties
  <2>3. Request(plan[p]) \in R BY <1>1
  <2> HIDE DEF R
  <2>4. /\ sent' \in Seq(R) /\ Len(sent') = n + 1
        /\ sent'[n + 1] = Request(plan[p])
        /\ \A i \in 1 .. n : sent'[i] = sent[i]
    BY <2>1, <2>2, <2>3, AppendProperties
  <2>5. PICK w : /\ Enumerates(w, n, Requests(p - 1))
                 /\ \A i \in 1 .. n : sent[i] = Request(plan[w[i]])
    BY DEF FulfilInv, SentInv, Done
  <2> DEFINE v == [i \in 1 .. n + 1 |-> IF i = n + 1 THEN p ELSE w[i]]
  <2>6. /\ Requests(p - 1) \in SUBSET Nat
        /\ \A q \in Requests(p - 1) : q < p
    BY <1>1 DEF Requests
  <2>7. Requests(p) = Requests(p - 1) \cup {p}
    <3>1. \A k : k \in 1 .. p <=> k \in 1 .. p - 1 \/ k = p BY <1>1
    <3> QED BY <3>1, Zenon DEF Requests
  <2>8. Enumerates(v, n + 1, Requests(p))
    <3>1. p \in Nat BY <1>1
    <3>2. /\ Enumerates(w, n, Requests(p - 1)) /\ Requests(p - 1) \in SUBSET Nat
          /\ \A q \in Requests(p - 1) : q < p
      BY <2>5, <2>6
    <3> HIDE DEF p, n
    <3>3. Enumerates(v, n + 1, Requests(p - 1) \cup {p})
      BY <2>2, <3>1, <3>2, EnumerateOne
    <3> QED BY <2>7, <3>3
  <2>9. ASSUME NEW i \in 1 .. n + 1 PROVE sent'[i] = Request(plan[v[i]])
    <3>1. CASE i = n + 1
      <4>1. v[i] = p BY <2>2, <3>1
      <4> QED BY <2>4, <3>1, <4>1
    <3>2. CASE i # n + 1
      <4>1. i \in 1 .. n /\ v[i] = w[i] BY <2>2, <3>2
      <4> QED BY <2>4, <2>5, <4>1
    <3> QED BY <3>1, <3>2
  <2>10. Requests(Done)' = Requests(p)
    <3>1. Requests(Done)' = {k \in 1 .. Done' : plan'[k].op # "ControlIn"}
      BY DEF Requests
    <3> QED BY <3>1 DEF Requests
  <2> HIDE DEF v, p
  <2>11. Enumerates(v, Len(sent'), Requests(Done)') BY <2>4, <2>8, <2>10
  <2>12. \A i \in 1 .. Len(sent') : sent'[i] = Request(plan'[v[i]])
    BY <2>4, <2>9
  <2> QED BY <2>4, <2>11, <2>12 DEF SentInv, R
<1>4. EndInv' BY DEF EndInv
<1> QED BY <1>2, <1>3, <1>4

LEMMA FulfilLoad ==
  ASSUME FulfilInv, LoadPlan PROVE LoadedInv' /\ SentInv' /\ EndInv'
<1>1. /\ UNCHANGED << text, quality, polls, sent >> /\ result = NONE
      /\ position = 0 /\ polls = 0 /\ sent = << >>
  BY DEF LoadPlan, options, cameraVars, FulfilInv, IInv, Unloaded, LoadedInv
<1>2. CASE UNCHANGED << plan, position >> /\ result' # "Ok"
  BY <1>1, <1>2, FulfilSteady
<1>3. CASE /\ position' = 1 /\ result' = NONE /\ Parsed.ok
           /\ \/ quality = NONE /\ plan' = Parsed.operations
              \/ /\ quality \in ScaleFactor /\ ScaleWrites(Parsed.operations) # {}
                 /\ plan' = Override(Parsed.operations, quality)
  <2>1. Parsed' = Parsed BY <1>1 DEF Parsed
  <2>2. quality \in ScaleFactor => quality # NONE
    BY PlanAssumption DEF ScaleFactor
  <2>3. LoadedInv' BY <1>1, <1>3, <2>1, <2>2 DEF LoadedInv
  <2>4. SentInv'
    <3>1. sent' \in Seq({Request(op) : op \in InitOp}) /\ Len(sent') = 0
      BY <1>1, EmptySeq
    <3>2. Done' = 0 BY <1>1, <1>3 DEF Done
    <3>3. 1 .. 0 = {} OBVIOUS
    <3>4. Requests(Done)' = {} BY <3>2, <3>3 DEF Requests
    <3>5. Enumerates([i \in 1 .. 0 |-> 0], 0, {}) BY <3>3 DEF Enumerates
    <3> QED BY <3>1, <3>3, <3>4, <3>5 DEF SentInv
  <2>5. EndInv' BY <1>3, PlanAssumption DEF EndInv
  <2> QED BY <2>3, <2>4, <2>5
<1> QED BY <1>1, <1>2, <1>3 DEF LoadPlan, Parsed

LEMMA FulfilAcknowledged ==
  ASSUME FulfilInv, Acknowledged PROVE LoadedInv' /\ SentInv' /\ EndInv'
<1> DEFINE end == EndOfStatusPollRun(plan, position + 1)
<1>1. /\ position \in 1 .. Len(plan) /\ polls > 0 /\ position' = end /\ polls' = 0
      /\ UNCHANGED << text, quality, plan, sent >> /\ result' # "Ok"
      /\ plan \in Seq(InitOp) /\ Len(plan) \in Nat
  BY LenProperties, PlanAssumption
     DEF Acknowledged, FulfilInv, IInv, Waiting, TypeInv, options, cameraVars
<1>2. /\ end \in position + 1 .. Len(plan) + 1
      /\ \A i \in position + 1 .. end - 1 : IsStatusPoll(plan[i])
  <2>1. position + 1 \in 1 .. Len(plan) + 1 BY <1>1
  <2> QED BY <1>1, <2>1, RunEnds
<1> HIDE DEF end
<1>3. \A i \in position + 1 .. end - 1 : plan[i].op = "ControlIn"
  BY <1>2 DEF IsStatusPoll
<1>4. Requests(end - 1) = Requests(position)
  <2>1. \A k : k \in 1 .. end - 1
                 <=> k \in 1 .. position \/ k \in position + 1 .. end - 1
    BY <1>1, <1>2
  <2> QED BY <1>3, <2>1, Zenon DEF Requests
<1>5. Done = position /\ Done' = end - 1 BY <1>1 DEF Done
<1>6. Requests(Done)' = Requests(Done)
  <2>1. Requests(Done)' = {k \in 1 .. Done' : plan'[k].op # "ControlIn"}
    BY DEF Requests
  <2>2. Requests(Done)' = Requests(end - 1) BY <1>1, <1>5, <2>1 DEF Requests
  <2> QED BY <1>4, <1>5, <2>2
<1>7. position > 0 /\ position' > 0 BY <1>1, <1>2
<1> QED BY <1>1, <1>6, <1>7, FulfilReads

LEMMA FulfilStep == FulfilInv /\ [Next]_vars => FulfilInv'
<1> SUFFICES ASSUME FulfilInv, [Next]_vars PROVE LoadedInv' /\ SentInv' /\ EndInv'
  BY AckStep DEF FulfilInv
<1> USE DEF hostVars, cameraVars, otherVars, options
<1>1. CASE LoadPlan BY <1>1, FulfilLoad
<1>2. CASE Read
  <2>1. /\ position \in 1 .. Len(plan) /\ polls = 0 /\ position' = position + 1
        /\ plan[position].op = "ControlIn" /\ result' # "Ok"
        /\ UNCHANGED << text, quality, plan, polls, sent >> /\ position \in Nat
    <3>1. position \in Nat BY DEF FulfilInv, IInv, TypeInv
    <3>2. position > 0 /\ position <= Len(plan) /\ polls = 0 /\ result = NONE
      BY <1>2 DEF Read, Ready
    <3>3. /\ position' = position + 1 /\ plan[position].op = "ControlIn"
          /\ UNCHANGED << text, quality, plan, polls, sent, result >>
      BY <1>2 DEF Read
    <3>4. plan \in Seq(InitOp) BY DEF FulfilInv, IInv, TypeInv
    <3>5. position \in 1 .. Len(plan) BY <3>1, <3>2, <3>4, LenProperties
    <3> QED BY <3>1, <3>2, <3>3, <3>5, PlanAssumption
  <2>2. Done = position - 1 /\ Done' = position BY <2>1 DEF Done
  <2>3. \A k : k \in 1 .. position <=> k \in 1 .. position - 1 \/ k = position
    BY <2>1
  <2>4. Requests(position) = Requests(position - 1)
    BY <2>1, <2>3, Zenon DEF Requests
  <2>5. Requests(Done)' = {k \in 1 .. Done' : plan'[k].op # "ControlIn"}
    BY DEF Requests
  <2>6. Requests(Done)' = Requests(position) BY <2>1, <2>2, <2>5 DEF Requests
  <2>7. Requests(Done)' = Requests(Done) BY <2>2, <2>4, <2>6
  <2> QED BY <2>1, <2>7, FulfilReads
<1>3. CASE Write
  <2>1. /\ position \in 1 .. Len(plan) /\ polls = 0
        /\ plan[position].op = "ControlOut" /\ result' # "Ok"
        /\ UNCHANGED << text, quality, plan >> /\ position \in Nat
    BY <1>3, PlanAssumption DEF Write, Ready, FulfilInv, IInv, TypeInv
  <2>2. sent' = Append(sent, Request(plan[position]))
    BY <1>3, <2>1 DEF Write, Request
  <2>3. \/ polls' = 1 /\ position' = position
        \/ polls' = 0 /\ position' = position + 1
    BY <1>3, <2>1 DEF Write
  <2>4. Done' = position /\ position' > 0 BY <2>1, <2>3 DEF Done
  <2> QED BY <2>1, <2>2, <2>4, FulfilRequest
<1>4. CASE SetInterface
  <2>1. /\ position \in 1 .. Len(plan) /\ polls = 0
        /\ plan[position].op = "SetInterface" /\ result' # "Ok"
        /\ UNCHANGED << text, quality, plan >> /\ position \in Nat
        /\ polls' = 0 /\ position' = position + 1
    BY <1>4, PlanAssumption DEF SetInterface, Ready, FulfilInv, IInv, TypeInv
  <2>2. sent' = Append(sent, Request(plan[position]))
    BY <1>4, <2>1 DEF SetInterface, Request
  <2>3. Done' = position /\ position' > 0 BY <2>1 DEF Done
  <2> QED BY <2>1, <2>2, <2>3, FulfilRequest
<1>5. CASE Acknowledged BY <1>5, FulfilAcknowledged
<1>6. CASE RequestFails \/ PollTimesOut \/ CameraEchoes \/ TransportWritesNothing
            \/ TransportReads \/ TransportWrites \/ TransportReturns \/ UNCHANGED vars
  <2>1. /\ UNCHANGED << text, quality, plan, position, sent, polls >>
        /\ result' = "Ok" => result = "Ok"
    BY <1>6 DEF RequestFails, PollTimesOut, CameraEchoes, TransportWritesNothing,
       TransportReads, TransportWrites, TransportReturns, vars
  <2> QED BY <2>1, FulfilSteady
<1>7. CASE PollAgain
  <2>1. /\ UNCHANGED << text, quality, plan, position, sent >> /\ result' # "Ok"
        /\ polls > 0 /\ polls' > 0
    BY <1>7, PlanAssumption DEF PollAgain
  <2> QED BY <2>1, FulfilSteady
<1>8. CASE PlanEnds
  <2>1. /\ UNCHANGED << text, quality, plan, position, sent, polls >>
        /\ position = Len(plan) + 1 /\ result = NONE
    BY <1>8 DEF PlanEnds
  <2>2. plan \in Seq(InitOp) /\ polls \in Nat BY DEF FulfilInv, IInv, TypeInv
  <2>3. polls = 0 BY <2>1, <2>2, LenProperties DEF FulfilInv, IInv, Waiting
  <2>4. EndInv' BY <2>1, <2>3 DEF EndInv
  <2>5. LoadedInv' BY <2>1 DEF FulfilInv, LoadedInv, Parsed
  <2>6. Requests(Done)' = Requests(Done) BY <2>1 DEF Requests, Done
  <2>7. SentInv' BY <2>1, <2>6 DEF FulfilInv, SentInv
  <2> QED BY <2>4, <2>5, <2>7
<1> QED BY <1>1, <1>2, <1>3, <1>4, <1>5, <1>6, <1>7, <1>8 DEF Next, Finished

LEMMA FulfilInit == Init => FulfilInv
<1> SUFFICES ASSUME Init PROVE LoadedInv /\ SentInv /\ EndInv
  BY AckInit DEF FulfilInv
<1>1. sent = << >> /\ position = 0 /\ polls = 0 /\ result = NONE BY DEF Init
<1>2. sent \in Seq({Request(op) : op \in InitOp}) /\ Len(sent) = 0
  BY <1>1, EmptySeq
<1>3. 1 .. 0 = {} /\ 1 .. 0 - 1 = {} /\ Done = 0 - 1 BY <1>1 DEF Done
<1>4. Requests(Done) = {} BY <1>3 DEF Requests
<1>5. Enumerates([i \in 1 .. 0 |-> 0], 0, {}) BY <1>3 DEF Enumerates
<1>6. SentInv BY <1>2, <1>3, <1>4, <1>5 DEF SentInv
<1> QED BY <1>1, <1>6, PlanAssumption DEF LoadedInv, EndInv

(* load_plan, for every text: before the first request reaches the camera    *)
(* every row was found supported, and the quality in range and with a write  *)
(* to replace, whatever the row that would be refused stands behind.         *)
THEOREM RefusedSafety == Spec => []RefusedUntouched
<1>1. FulfilInv => RefusedUntouched
  <2> SUFFICES ASSUME FulfilInv, sent # << >>
               PROVE  /\ \A i \in 1 .. Len(Texts[text]) : Supported(Texts[text][i])
                      /\ quality # NONE =>
                           /\ quality \in 4 .. 128
                           /\ \E i \in 1 .. Len(Texts[text]) :
                                LET row == Texts[text][i] IN
                                /\ row # << >> /\ row[2] = 64
                                /\ IsScaleRequest(RowRequest(row))
    BY DEF RefusedUntouched
  <2> DEFINE lines == Texts[text]
             ops == Parsed.operations
             K == {i \in 1 .. Len(lines) : lines[i] # << >>}
  <2>1. position > 0 /\ text \in DOMAIN Texts
    BY DEF FulfilInv, LoadedInv, IInv, TypeInv
  <2>2. Parsed.ok BY <2>1 DEF FulfilInv, LoadedInv
  <2>3. \A i \in K : ParseRow(lines[i]) # Refused
    BY <2>1, <2>2, ParsedPlan DEF Parsed
  <2>4. ASSUME NEW i \in 1 .. Len(lines) PROVE Supported(lines[i])
    <3>1. CASE lines[i] = << >> BY <3>1 DEF Supported
    <3>2. CASE lines[i] # << >>
      <4>1. ParseRow(lines[i]) # Refused BY <2>3, <3>2
      <4> HIDE DEF lines
      <4> QED BY <4>1, ParsedSupported
    <3> QED BY <3>1, <3>2
  <2>5. ASSUME quality # NONE
        PROVE  /\ quality \in 4 .. 128
               /\ \E i \in 1 .. Len(lines) : /\ lines[i] # << >> /\ lines[i][2] = 64
                                             /\ IsScaleRequest(RowRequest(lines[i]))
    <3>1. quality \in 4 .. 128 /\ ScaleWrites(ops) # {}
      BY <2>1, <2>5 DEF FulfilInv, LoadedInv, ScaleFactor
    <3>2. PICK k \in 1 .. Len(ops) : /\ ops[k].op = "ControlOut"
                                     /\ ops[k].index = ScaleFactorIndex
                                     /\ Len(ops[k].data) = 1
      BY <3>1 DEF ScaleWrites
    <3>3. PICK e : /\ Enumerates(e, Len(ops), K)
                   /\ \A j \in 1 .. Len(ops) : ops[j] = ParseRow(lines[e[j]])
      BY <2>1, ParsedPlan DEF Parsed
    <3>4. e[k] \in K BY <3>3 DEF Enumerates
    <3> DEFINE row == lines[e[k]]
    <3>5. e[k] \in 1 .. Len(lines) /\ row # << >> /\ ParseRow(row) # Refused
      BY <2>3, <3>4
    <3>6. ops[k] = ParseRow(row) BY <3>3
    <3> HIDE DEF row, ops, lines, K
    <3>7. row[2] = 64 /\ IsScaleRequest(RowRequest(row))
      <4>1. row[2] = 64 BY <3>2, <3>5, <3>6, ParsedRequest
      <4>2. row[2] # 192 BY <4>1
      <4> QED BY <3>2, <3>5, <3>6, <4>1, <4>2, ParsedRequest
    <3> QED BY <3>1, <3>5, <3>7 DEF row
  <2> QED BY <2>4, <2>5
<1> QED BY <1>1, FulfilInit, FulfilStep, PTL DEF Spec

(* The operation that Override changes. *)
LEMMA OverrideIs ==
  ASSUME NEW operations \in Seq(InitOp), NEW q, NEW k \in 1 .. Len(operations)
  PROVE  LET Last == /\ k \in ScaleWrites(operations)
                     /\ \A j \in ScaleWrites(operations) : j <= k
         IN  /\ Last => Request(Override(operations, q)[k])
                          = [index |-> ScaleFactorIndex, data |-> << q >>]
             /\ ~Last => Override(operations, q)[k] = operations[k]
             /\ Override(operations, q)[k].op = operations[k].op
<1> DEFINE Last == /\ k \in ScaleWrites(operations)
                   /\ \A j \in ScaleWrites(operations) : j <= k
           op == operations[k]
<1>1. Override(operations, q)[k]
        = IF Last THEN [op EXCEPT !.data = << q >>] ELSE op
  BY Zenon DEF Override
<1>2. CASE Last
  <2>1. op.op = "ControlOut" /\ op.index = ScaleFactorIndex
    BY <1>2 DEF ScaleWrites
  <2>2. op \in InitOp BY ElementOfSeq
  <2>3. op \in ControlOut BY <2>1, <2>2, IsWrite
  <2> HIDE DEF op
  <2>4. [op EXCEPT !.data = << q >>]
          = [op |-> "ControlOut", value |-> op.value, index |-> ScaleFactorIndex,
             data |-> << q >>]
    BY <2>1, <2>3 DEF ControlOut
  <2>5. Override(operations, q)[k]
          = [op |-> "ControlOut", value |-> op.value, index |-> ScaleFactorIndex,
             data |-> << q >>]
    BY <1>1, <1>2, <2>4
  <2>6. /\ Override(operations, q)[k].op = "ControlOut"
        /\ Override(operations, q)[k].index = ScaleFactorIndex
        /\ Override(operations, q)[k].data = << q >>
    BY <2>5
  <2>7. Request(Override(operations, q)[k])
          = [index |-> ScaleFactorIndex, data |-> << q >>]
    BY <2>6 DEF Request
  <2> QED BY <1>2, <2>1, <2>6, <2>7 DEF op
<1>3. CASE ~Last BY <1>1, <1>3
<1> QED BY <1>2, <1>3

(* The plan has the operations of the text, one by one. *)
LEMMA PlanIs ==
  ASSUME FulfilInv, position > 0
  PROVE  LET ops == Parsed.operations
             Last(k) == k \in ScaleWrites(ops) /\ \A j \in ScaleWrites(ops) : j <= k
         IN  /\ Parsed.ok /\ ops \in Seq(InitOp) /\ Len(plan) = Len(ops)
             /\ \A k \in 1 .. Len(ops) :
                  /\ plan[k].op = ops[k].op
                  /\ IF quality # NONE /\ Last(k)
                     THEN Request(plan[k]) = [index |-> ScaleFactorIndex,
                                              data |-> << quality >>]
                     ELSE plan[k] = ops[k]
<1> DEFINE ops == Parsed.operations
           Last(k) == k \in ScaleWrites(ops) /\ \A j \in ScaleWrites(ops) : j <= k
<1>1. Parsed.ok BY DEF FulfilInv, LoadedInv
<1>2. ops \in Seq(InitOp)
  BY <1>1, TextsAssumption DEF Parsed, FulfilInv, IInv, TypeInv
<1>3. CASE quality = NONE
  <2>1. plan = ops BY <1>3 DEF FulfilInv, LoadedInv
  <2> HIDE DEF ops
  <2> QED BY <1>1, <1>2, <1>3, <2>1 DEF ops
<1>4. CASE quality # NONE
  <2>1. plan = Override(ops, quality) BY <1>4 DEF FulfilInv, LoadedInv
  <2> HIDE DEF ops
  <2>2. Len(plan) = Len(ops)
    <3>1. Len(ops) \in Nat BY <1>2, LenProperties
    <3> QED BY <2>1, <3>1 DEF Override
  <2>3. ASSUME NEW k \in 1 .. Len(ops)
        PROVE  /\ plan[k].op = ops[k].op
               /\ IF quality # NONE /\ Last(k)
                  THEN Request(plan[k]) = [index |-> ScaleFactorIndex,
                                           data |-> << quality >>]
                  ELSE plan[k] = ops[k]
    BY <1>2, <1>4, <2>1, OverrideIs
  <2> QED BY <1>1, <1>2, <2>2, <2>3 DEF ops
<1> QED BY <1>3, <1>4

(* replay_initialization, for every text, strategy and quality: a replay     *)
(* that succeeds made every request of the text, in order and once, whatever *)
(* reads were skipped, with the last scale factor replaced and no other.     *)
THEOREM PlanSafety == Spec => []PlanFulfilled
<1>1. FulfilInv => PlanFulfilled
  <2> DEFINE lines == Texts[text]
             ops == Parsed.operations
             K == {i \in 1 .. Len(lines) : lines[i] # << >>}
             P == {i \in 1 .. Len(lines) : lines[i] # << >> /\ lines[i][2] # 192}
             rows == Subsequence(lines, P)
             scales == {i \in 1 .. Len(rows) : IsScaleRequest(RowRequest(rows[i]))}
             SW == ScaleWrites(ops)
             R == {k \in 1 .. Len(ops) : ops[k].op # "ControlIn"}
             n == Len(sent)
  <2> SUFFICES ASSUME FulfilInv, result = "Ok"
               PROVE  /\ n = Len(rows)
                      /\ \A i \in 1 .. Len(rows) :
                           IF quality # NONE /\ i \in scales /\ \A j \in scales : j <= i
                           THEN sent[i] = [index |-> ScaleFactorIndex,
                                           data |-> << quality >>]
                           ELSE sent[i] = RowRequest(rows[i])
    BY DEF PlanFulfilled
  <2>1. /\ position > 0 /\ Done = Len(plan) /\ text \in DOMAIN Texts
    <3>1. position = Len(plan) + 1 /\ polls = 0 /\ plan \in Seq(InitOp)
      BY DEF FulfilInv, EndInv, IInv, TypeInv
    <3>2. Len(plan) \in Nat BY <3>1, LenProperties
    <3> QED BY <3>1, <3>2 DEF Done, FulfilInv, IInv, TypeInv
  <2>2. /\ Parsed.ok /\ ops \in Seq(InitOp) /\ Len(plan) = Len(ops)
        /\ \A k \in 1 .. Len(ops) :
             /\ plan[k].op = ops[k].op
             /\ IF /\ quality # NONE /\ k \in SW /\ \A j \in SW : j <= k
                THEN Request(plan[k]) = [index |-> ScaleFactorIndex,
                                         data |-> << quality >>]
                ELSE plan[k] = ops[k]
    BY <2>1, PlanIs
  <2>3. /\ lines \in Seq({lines[i] : i \in DOMAIN lines})
        /\ Len(lines) \in Nat /\ Len(ops) \in Nat
        /\ \A i \in K : ParseRow(lines[i]) # Refused
    BY <2>1, <2>2, ParsedPlan DEF Parsed
  <2>4. PICK e : /\ Enumerates(e, Len(ops), K)
                 /\ \A k \in 1 .. Len(ops) : ops[k] = ParseRow(lines[e[k]])
    BY <2>1, ParsedPlan DEF Parsed
  <2>5. Requests(Done) = R BY <2>1, <2>2 DEF Requests
  <2>6. PICK w : /\ Enumerates(w, n, R)
                 /\ \A i \in 1 .. n : sent[i] = Request(plan[w[i]])
    BY <2>5 DEF FulfilInv, SentInv
  <2>7. /\ rows \in Seq({lines[i] : i \in DOMAIN lines})
        /\ \E v : /\ Enumerates(v, Len(rows), P)
                  /\ \A i \in 1 .. Len(rows) : rows[i] = lines[v[i]]
    <3>1. P \in SUBSET (1 .. Len(lines)) OBVIOUS
    <3> HIDE DEF P, lines
    <3> QED BY <2>3, <3>1, SubsequenceIs
  <2>8. PICK v : /\ Enumerates(v, Len(rows), P)
                 /\ \A i \in 1 .. Len(rows) : rows[i] = lines[v[i]]
    BY <2>7
  <2>9. n \in Nat /\ Len(rows) \in Nat
    <3>1. sent \in Seq({Request(op) : op \in InitOp}) BY DEF FulfilInv, SentInv
    <3> QED BY <2>7, <3>1, LenProperties
  <2>10. \A k \in 1 .. Len(ops) :
           /\ e[k] \in K /\ ParseRow(lines[e[k]]) # Refused
           /\ ops[k] = ParseRow(lines[e[k]])
    BY <2>3, <2>4 DEF Enumerates
  <2>11. \A k \in 1 .. Len(ops) : k \in R <=> lines[e[k]][2] # 192
    <3> TAKE k \in 1 .. Len(ops)
    <3> HIDE DEF lines, ops
    <3>1. ops[k].op = "ControlIn" <=> lines[e[k]][2] = 192
      BY <2>10, ParsedRequest
    <3> QED BY <3>1
  <2>12. {e[k] : k \in R} = P
    <3>1. ASSUME NEW k \in R PROVE e[k] \in P
      <4>1. k \in 1 .. Len(ops) OBVIOUS
      <4>2. e[k] \in K /\ lines[e[k]][2] # 192 BY <2>10, <2>11, <4>1
      <4> QED BY <4>2
    <3>2. ASSUME NEW p \in P PROVE \E k \in R : e[k] = p
      <4>1. p \in K /\ lines[p][2] # 192 OBVIOUS
      <4>2. PICK k \in 1 .. Len(ops) : e[k] = p BY <2>4, <4>1 DEF Enumerates
      <4>3. k \in R BY <2>11, <4>1, <4>2
      <4> QED BY <4>2, <4>3
    <3> HIDE DEF R, P
    <3> QED BY <3>1, <3>2
  <2>13. n = Len(rows) /\ \A i \in 1 .. n : e[w[i]] = v[i]
    <3> DEFINE u == [i \in 1 .. n |-> e[w[i]]]
               m == Len(ops)
    <3>1. /\ K \in SUBSET Nat /\ P \in SUBSET Nat /\ R \in SUBSET (1 .. m)
          /\ m \in Nat /\ n \in Nat /\ Enumerates(e, m, K) /\ Enumerates(w, n, R)
      BY <2>3, <2>4, <2>6, <2>9
    <3> HIDE DEF K, P, R, n, m, rows, ops
    <3>2. u = [i \in 1 .. n |-> e[w[i]]] OBVIOUS
    <3>3. \A i \in 1 .. n : u[i] = e[w[i]] OBVIOUS
    <3> HIDE DEF u
    <3>4. Enumerates(u, n, P) BY <2>12, <3>1, <3>2, EnumerationOfEnumeration
    <3>5. n = Len(rows) /\ \A i \in 1 .. n : u[i] = v[i]
      BY <2>8, <2>9, <3>1, <3>4, EnumerationUnique
    <3> QED BY <3>3, <3>5
  <2>14. ASSUME NEW i \in 1 .. n
         PROVE  /\ w[i] \in R /\ w[i] \in 1 .. Len(ops)
                /\ Request(ops[w[i]]) = RowRequest(rows[i])
                /\ i \in scales <=> w[i] \in SW
    <3>1. w[i] \in R /\ w[i] \in 1 .. Len(ops) BY <2>6 DEF Enumerates
    <3>2. rows[i] = lines[e[w[i]]] BY <2>8, <2>13
    <3> DEFINE row == lines[e[w[i]]]
    <3>3. ParseRow(row) # Refused /\ ops[w[i]] = ParseRow(row) /\ row[2] # 192
      BY <2>10, <2>11, <3>1
    <3>4. i \in scales <=> IsScaleRequest(RowRequest(rows[i])) BY <2>13
    <3>5. w[i] \in SW <=> /\ ops[w[i]].op = "ControlOut"
                          /\ ops[w[i]].index = ScaleFactorIndex
                          /\ Len(ops[w[i]].data) = 1
      BY <3>1 DEF ScaleWrites
    <3> HIDE DEF row, scales, SW, rows, lines, R
    <3>6. /\ Request(ops[w[i]]) = RowRequest(row)
          /\ IsScaleRequest(RowRequest(row))
               <=> /\ ops[w[i]].op = "ControlOut"
                   /\ ops[w[i]].index = ScaleFactorIndex
                   /\ Len(ops[w[i]].data) = 1
      BY <3>3, ParsedRequest
    <3> QED BY <3>1, <3>2, <3>4, <3>5, <3>6 DEF row
  (* The last scale factor asked for is the last of the plan. *)
  <2>15. ASSUME NEW i \in 1 .. n
         PROVE  (i \in scales /\ \A j \in scales : j <= i)
                  <=> (w[i] \in SW /\ \A k \in SW : k <= w[i])
    <3>1. scales \subseteq 1 .. n BY <2>13
    <3>2. \A k \in SW : k \in R /\ k \in Nat
      <4>1. \A k \in SW : k \in 1 .. Len(ops) /\ ops[k].op = "ControlOut"
        BY DEF ScaleWrites
      <4> QED BY <2>3, <4>1
    <3>3. \A j \in 1 .. n : w[j] \in Nat
      <4>1. \A k \in 1 .. Len(ops) : k \in Nat BY <2>3
      <4> QED BY <2>14, <4>1
    <3>4. ASSUME NEW j \in 1 .. n PROVE j <= i <=> w[j] <= w[i]
      <4>1. CASE j = i BY <3>3, <4>1
      <4>2. CASE j < i
        <5>1. w[j] < w[i] BY <2>6, <4>2 DEF Enumerates
        <5> QED BY <2>9, <3>3, <4>2, <5>1
      <4>3. CASE i < j
        <5>1. w[i] < w[j] BY <2>6, <4>3 DEF Enumerates
        <5> QED BY <2>9, <3>3, <4>3, <5>1
      <4> QED BY <2>9, <4>1, <4>2, <4>3
    <3>5. \A k \in SW : \E j \in 1 .. n : w[j] = k
      <4> HIDE DEF R, SW, n
      <4> QED BY <2>6, <3>2 DEF Enumerates
    <3>6. \A j \in 1 .. n : j \in scales <=> w[j] \in SW BY <2>14
    <3> HIDE DEF scales, SW, n
    <3> QED BY <3>1, <3>4, <3>5, <3>6, Zenon
  <2>16. ASSUME NEW i \in 1 .. n
         PROVE  IF quality # NONE /\ i \in scales /\ \A j \in scales : j <= i
                THEN sent[i] = [index |-> ScaleFactorIndex, data |-> << quality >>]
                ELSE sent[i] = RowRequest(rows[i])
    <3>1. sent[i] = Request(plan[w[i]]) BY <2>6
    <3>2. w[i] \in 1 .. Len(ops) /\ Request(ops[w[i]]) = RowRequest(rows[i])
      BY <2>14
    <3>3. IF quality # NONE /\ w[i] \in SW /\ \A k \in SW : k <= w[i]
          THEN Request(plan[w[i]]) = [index |-> ScaleFactorIndex,
                                      data |-> << quality >>]
          ELSE plan[w[i]] = ops[w[i]]
      BY <2>2, <3>2
    <3> HIDE DEF scales, SW, rows, ops, n
    <3> QED BY <2>15, <3>1, <3>2, <3>3
  <2> QED BY <2>13, <2>16
<1> QED BY <1>1, FulfilInit, FulfilStep, PTL DEF Spec
=============================================================================
