----------------------------- MODULE InitReplay -----------------------------
(***************************************************************************)
(* The program loads a plan (load_plan, --quality) and plays it to the     *)
(* camera (replay_initialization, handycam-libusb).  Under two of the      *)
(* strategies a startup scan command and the status reads recorded after   *)
(* it become one wait for the command's token in byte 0 of the status      *)
(* block.  Vendor requests need no claimed interface, so another process   *)
(* may run "handycam transport" at any point of the replay.                *)
(*                                                                         *)
(* The camera (external) takes the mailbox's last command when it gets to  *)
(* it and echoes its number, the high nibble, in the status byte; the low  *)
(* nibble is 1 in record and 9 in playback mode.                           *)
(***************************************************************************)
EXTENDS InitPlan

CONSTANTS Texts,          \* texts of plans, each a sequence of rows
          Qualities,      \* values of --quality
          Commands,       \* actions of the transport command
          Sequences,      \* values of --current-sequence
          MaxPolls,       \* bound: status reads of one wait
          MaxTransports,  \* bound: transport commands run meanwhile
          NONE

ASSUME PlanAssumption == /\ Qualities \subseteq 0 .. 255
                         /\ Commands \subseteq TransportCommand
                         /\ Sequences \subseteq 0 .. 255
                         /\ MaxPolls \in Nat /\ MaxTransports \in Nat
                         /\ NONE \notin 0 .. 255 /\ NONE # "Ok"

(* A text is a sequence of rows.  Payloads are bytes: a text that is         *)
(* accepted parses to operations.                                            *)
ASSUME TextsAssumption ==
  \A t \in DOMAIN Texts :
    LET parsed == ParseInitPlan(Texts[t])
    IN  /\ Texts[t] \in Seq({Texts[t][i] : i \in DOMAIN Texts[t]})
        /\ parsed.ok => parsed.operations \in Seq(InitOp)

VARIABLES strategy, quality, text,  \* options of the program
          plan,       \* the operations, once loaded
          position,   \* in the plan, from 1; 0 until it is loaded
          polls,      \* status reads of the wait under way, 0 outside
          result,
          accepted,   \* for each wait that ended well, whose echo ended it
          mode,       \* "record" or "playback": the camera's switch
          mailbox,    \* the command the camera has not taken yet
          status,     \* byte 0 of the status block
          echoed,     \* whose command status echoes
          sent,       \* the program's requests that changed the camera
          transport,  \* the word the other process writes, or has written
          transports  \* transport commands run

(* Whose a command is: its position in the plan, or one of these. *)
Before == 0
Transport == -1

options == << strategy, quality, text >>
hostVars == << options, plan, position, polls, result, accepted >>
cameraVars == << mode, mailbox, status, echoed, sent >>
otherVars == << transport, transports >>
vars == << hostVars, cameraVars, otherVars >>

-----------------------------------------------------------------------------
(* Which operations the strategies treat specially. *)
StatusIndex == 832                           \* 0x0340
StartupScanTokens == {113, 129, 145, 161}    \* 0x71, 0x81, 0x91, 0xa1

IsCommand(op) == /\ op.op = "ControlOut" /\ op.index = CommandBlockIndex
                 /\ Len(op.data) = CommandBlockSize

StartupScanToken(op) ==
  IF IsCommand(op) /\ ScanAckToken(op.data) \in StartupScanTokens
  THEN ScanAckToken(op.data) ELSE NoToken

IsStatusPoll(op) == /\ op.op = "ControlIn" /\ op.value = 0
                    /\ op.index = StatusIndex /\ op.length = 64

(* The first position from start on that is no status read. *)
EndOfStatusPollRun(operations, start) ==
  CHOOSE end \in start .. Len(operations) + 1 :
    /\ \A i \in start .. end - 1 : IsStatusPoll(operations[i])
    /\ end = Len(operations) + 1 \/ ~IsStatusPoll(operations[end])

(* With the playback bit, which a scan token lacks. *)
AcknowledgementToken(self, token) ==
  IF self = "ConditionPolling" THEN token ELSE token + 8

(* Is the operation at p followed by a wait, once it is written? *)
Waits(p) == /\ strategy # "LiteralReplay"
            /\ StartupScanToken(plan[p]) # NoToken
            /\ EndOfStatusPollRun(plan, p + 1) > p + 1

-----------------------------------------------------------------------------
(* The camera's status byte may hold anything from before.                  *)
Init == /\ strategy \in {"LiteralReplay", "ConditionPolling",
                         "PlaybackConditionPolling"}
        /\ quality \in Qualities \cup {NONE}
        /\ text \in DOMAIN Texts
        /\ plan = << >> /\ position = 0 /\ polls = 0
        /\ result = NONE /\ accepted = {}
        /\ mode \in {"record", "playback"}
        /\ mailbox = NONE
        /\ status \in {16 * s + low : s \in 6 .. 8, low \in {1, 9}}
        /\ echoed = Before
        /\ sent = << >>
        /\ transport = NONE /\ transports = 0

(* load_plan, then --quality: all of the plan is parsed, and the quality     *)
(* checked, before the camera is opened.                                     *)
LoadPlan ==
  /\ result = NONE /\ position = 0
  /\ LET parsed == ParseInitPlan(Texts[text])
         Fail(error) == result' = error /\ UNCHANGED << plan, position >>
         Use(operations) ==
           plan' = operations /\ position' = 1 /\ UNCHANGED result
     IN  \/ ~parsed.ok /\ Fail("InitPlan")
         \/ parsed.ok /\ quality = NONE /\ Use(parsed.operations)
         \/ /\ parsed.ok /\ quality \notin ScaleFactor \cup {NONE}
            /\ Fail("ScaleFactor")
         \/ /\ parsed.ok /\ quality \in ScaleFactor
            /\ IF ScaleWrites(parsed.operations) = {}
               THEN Fail("MissingScaleFactorWrite")
               ELSE Use(Override(parsed.operations, quality))
  /\ UNCHANGED << options, polls, accepted, cameraVars, otherVars >>

Ready == /\ result = NONE /\ polls = 0
         /\ position > 0 /\ position <= Len(plan)

Read == /\ Ready /\ plan[position].op = "ControlIn"
        /\ position' = position + 1
        /\ UNCHANGED << options, plan, polls, result, accepted, cameraVars,
                        otherVars >>

(* A write, and for a startup command the beginning of its wait. *)
Write ==
  /\ Ready /\ plan[position].op = "ControlOut"
  /\ sent' = Append(sent, [index |-> plan[position].index,
                           data |-> plan[position].data])
  /\ IF Waits(position) THEN polls' = 1 /\ UNCHANGED position
     ELSE position' = position + 1 /\ UNCHANGED polls
  /\ IF IsCommand(plan[position])
     THEN mailbox' = [word |-> SubSeq(plan[position].data, 61, 64),
                      from |-> position]
     ELSE UNCHANGED mailbox
  /\ UNCHANGED << options, plan, result, accepted, mode, status, echoed,
                  otherVars >>

SetInterface ==
  /\ Ready /\ plan[position].op = "SetInterface"
  /\ sent' = Append(sent, [alternate |-> plan[position].alternate])
  /\ position' = position + 1
  /\ UNCHANGED << options, plan, polls, result, accepted, mode, mailbox, status,
                  echoed, otherVars >>

(* A request fails or is short. *)
RequestFails == /\ Ready \/ (result = NONE /\ polls > 0)
                /\ result' = "Usb"
                /\ UNCHANGED << options, plan, position, polls, accepted, cameraVars,
                                otherVars >>

-----------------------------------------------------------------------------
(* poll_status_acknowledgement.                                             *)

Token == AcknowledgementToken(strategy, StartupScanToken(plan[position]))

(* Faulty variant: any answer will do. *)
AcknowledgedByAny ==
  /\ result = NONE /\ polls > 0
  /\ accepted' = accepted \cup {[command |-> position, echo |-> echoed]}
  /\ position' = EndOfStatusPollRun(plan, position + 1) /\ polls' = 0
  /\ UNCHANGED << options, plan, result, cameraVars, otherVars >>

(* The token is there: go on after the status reads it replaces. *)
Acknowledged ==
  /\ result = NONE /\ polls > 0
  /\ status = Token
  /\ accepted' = accepted \cup {[command |-> position, echo |-> echoed]}
  /\ position' = EndOfStatusPollRun(plan, position + 1) /\ polls' = 0
  /\ UNCHANGED << options, plan, result, cameraVars, otherVars >>

PollAgain ==
  /\ result = NONE /\ polls \in 1 .. MaxPolls - 1
  /\ status # Token
  /\ polls' = polls + 1
  /\ UNCHANGED << options, plan, position, result, accepted, cameraVars,
                  otherVars >>

(* The read that is over the deadline was made all the same. *)
PollTimesOut ==
  /\ result = NONE /\ polls > 0
  /\ status # Token
  /\ result' = "StatusPollTimeout"
  /\ UNCHANGED << options, plan, position, polls, accepted, cameraVars,
                  otherVars >>

PlanEnds ==
  /\ result = NONE /\ position = Len(plan) + 1
  /\ result' = "Ok"
  /\ UNCHANGED << options, plan, position, polls, accepted, cameraVars,
                  otherVars >>

-----------------------------------------------------------------------------
(* The camera takes the last command written and echoes its number.         *)
CameraEchoes ==
  /\ mailbox # NONE
  /\ status' = HighNibble(mailbox.word[2]) + IF mode = "record" THEN 1 ELSE 9
  /\ echoed' = mailbox.from
  /\ mailbox' = NONE
  /\ UNCHANGED << hostVars, mode, sent, otherVars >>

(***************************************************************************)
(* run_transport and send_transport_command.                               *)
(***************************************************************************)
(* While the plan is played. *)
TransportMayStart == /\ result = NONE /\ position > 0 /\ transport = NONE
                     /\ transports < MaxTransports

(* A status read, a dry run, a refused --current-sequence or no camera. *)
TransportWritesNothing ==
  /\ TransportMayStart
  /\ transports' = transports + 1
  /\ UNCHANGED << hostVars, cameraVars, transport >>

(* status_before gives the number unless --current-sequence does. *)
TransportReads ==
  /\ TransportMayStart
  /\ \E command \in Commands, given \in Sequences \cup {NONE} :
       /\ given \in 0 .. 15 \cup {NONE}
       /\ transport' = [word |-> Encode(IF given = NONE THEN status \div 16
                                        ELSE given, command),
                        written |-> FALSE]
  /\ transports' = transports + 1
  /\ UNCHANGED << hostVars, cameraVars >>

TransportWrites ==
  /\ transport # NONE /\ ~transport.written
  /\ mailbox' = [word |-> transport.word, from |-> Transport]
  /\ transport' = [transport EXCEPT !.written = TRUE]
  /\ UNCHANGED << hostVars, mode, status, echoed, sent, transports >>

(* The settling time passes and status_after is read, or a request fails. *)
TransportReturns ==
  /\ transport # NONE
  /\ transport' = NONE
  /\ UNCHANGED << hostVars, cameraVars, transports >>

Finished == result # NONE /\ UNCHANGED vars

Next == \/ LoadPlan \/ Read \/ Write \/ SetInterface \/ RequestFails
        \/ Acknowledged \/ PollAgain \/ PollTimesOut \/ PlanEnds
        \/ CameraEchoes \/ TransportWritesNothing \/ TransportReads
        \/ TransportWrites \/ TransportReturns \/ Finished

Spec == Init /\ [][Next]_vars

-----------------------------------------------------------------------------
(* Number of a mailbox command. *)
NumberOf(op) == op.data[62] \div 16

(* No command of the plan has the number of another's scan. *)
ScansDistinct ==
  \A p, q \in 1 .. Len(plan) :
    /\ IsCommand(plan[p]) /\ StartupScanToken(plan[q]) # NoToken
    /\ NumberOf(plan[p]) = NumberOf(plan[q])
    => p = q

(* docs/production-driver.md: the semantic initializer waits for the real    *)
(* acknowledgement.  In a plan that numbers its scans apart, as the built-in *)
(* one does, what ends a wait is the echo of the command it waits for; but   *)
(* for a transport command sent meanwhile under the same number, and, for    *)
(* the first wait of all, a status byte left from before.                    *)
AckIsReal ==
  \A a \in accepted :
    ScansDistinct => \/ a.echo = a.command
                     \/ a.echo = Transport
                     \/ a.echo = Before /\ \A i \in 1 .. a.command - 1 : ~Waits(i)

(* What a row that is no read asks of the camera. *)
RowRequest(row) == IF row[2] = 1 THEN [alternate |-> row[4] % 256]
                   ELSE [index |-> row[5], data |-> row[7]]
IsScaleRequest(request) ==
  "data" \in DOMAIN request /\ request.index = ScaleFactorIndex
    /\ Len(request.data) = 1

(* replay_initialization, override_record_mode_scale_factor: whichever reads *)
(* a strategy skips, a replay that succeeds made every write of the text, in *)
(* order, once and with its own bytes, only the last scale factor being the  *)
(* quality asked for.                                                        *)
PlanFulfilled ==
  result = "Ok" =>
    LET lines == Texts[text]
        rows == Subsequence(lines, {i \in 1 .. Len(lines) :
                                      lines[i] # << >> /\ lines[i][2] # 192})
        scales == {i \in 1 .. Len(rows) : IsScaleRequest(RowRequest(rows[i]))}
    IN  /\ Len(sent) = Len(rows)
        /\ \A i \in 1 .. Len(rows) :
             IF quality # NONE /\ i \in scales /\ \A j \in scales : j <= i
             THEN sent[i] = [index |-> ScaleFactorIndex, data |-> << quality >>]
             ELSE sent[i] = RowRequest(rows[i])

(* The three kinds of row parse_init_plan's comment calls the deliberately  *)
(* narrow operation set.                                                    *)
Supported(row) ==
  \/ row = << >>
  \/ /\ Len(row) = 8 /\ row[1] \in 0 .. MaxDelay /\ row[4] \in Word
     /\ \/ << row[2], row[3], row[5], row[6] >> = << 1, 11, 0, 0 >>
        \/ /\ row[3] = 136 /\ row[5] \in Word /\ row[6] \in 0 .. 64
           /\ \/ row[2] = 192
              \/ row[2] = 64 /\ row[7] # NotHex /\ Len(row[7]) = row[6]

(* load_plan: one row outside the supported set, wherever it stands, and no *)
(* request of the plan reaches the camera; nor with a quality out of range, *)
(* or with no scale factor to replace.                                      *)
RefusedUntouched ==
  sent # << >> => /\ \A i \in 1 .. Len(Texts[text]) : Supported(Texts[text][i])
                  /\ quality # NONE => /\ quality \in 4 .. 128
                                       /\ \E i \in 1 .. Len(Texts[text]) :
                                            LET row == Texts[text][i] IN
                                            /\ row # << >> /\ row[2] = 64
                                            /\ IsScaleRequest(RowRequest(row))
=============================================================================
