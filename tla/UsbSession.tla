----------------------------- MODULE UsbSession -----------------------------
(***************************************************************************)
(* The life of a UsbSession (handycam-libusb, transport.rs): open, submit  *)
(* a pool of isochronous transfers, poll, stop.  One thread runs all of    *)
(* the program's steps, callbacks included: libusb calls back only from    *)
(* inside handle_events.  The kernel completes transfers at any time.      *)
(*                                                                         *)
(* transfer[i] is libusb's view of transfer i (external):                  *)
(*   "unallocated"  before libusb_alloc_transfer and after _free_transfer  *)
(*   "idle"         allocated, not in libusb's hands                       *)
(*   "inflight"     submitted, the kernel will complete it                 *)
(*   "COMPLETED", "CANCELLED", "FAILED"  completed with that status, its   *)
(*                  callback not run yet (FAILED: timed out, stalled,      *)
(*                  device gone, ...)                                      *)
(* The events channel is the set of the kinds of event queued in it.       *)
(***************************************************************************)
EXTENDS Integers, FiniteSets

CONSTANT N   \* 2 * TRANSFERS_PER_ENDPOINT

ASSUME NAssumption == N \in Nat \ {0}

VARIABLES pc,         \* where the program's thread is
          next,       \* index of the submission and of the cancellation loop
          caller,     \* who called stop: "stop" the client, "drop" Drop
          submitted,  \* TransferSlot.submitted
          transfer,   \* libusb's view
          cancelling, \* transfers libusb_cancel_transfer accepted
          running,    \* the flag callbacks share
          stopped,    \* UsbSession.stopped
          events,     \* kinds of SessionEvent in the channel
          claimed, streaming,  \* interface 0: claimed, and on alt 5
          plugged     \* is the opened device still there?

slotVars == << submitted, transfer, cancelling >>
flagVars == << running, stopped, events >>
deviceVars == << claimed, streaming, plugged >>
vars == << pc, next, caller, slotVars, flagVars, deviceVars >>

Transfers == 1 .. N
Awaiting == {"COMPLETED", "CANCELLED", "FAILED"}
EventKinds == {"Packet", "PacketError", "TransferFailed", "SubmitFailed",
               "CallbackPanicked"}

(* Faulty variant: SessionEvent::ends_session misses a variant. *)
EndingIgnoresPanic == {"TransferFailed", "SubmitFailed"}

Ending == {"TransferFailed", "SubmitFailed", "CallbackPanicked"}

(* Transfers libusb may still write to or call back. *)
owned == {i \in Transfers : transfer[i] \in {"inflight"} \cup Awaiting}

Fresh == /\ submitted = [i \in Transfers |-> FALSE]
         /\ transfer = [i \in Transfers |-> "unallocated"]
         /\ cancelling = {}
         /\ running = TRUE
         /\ stopped = FALSE
         /\ events = {}

Init == /\ pc = "idle" /\ next = 1 /\ caller = "drop"
        /\ Fresh
        /\ claimed = FALSE /\ streaming = FALSE /\ plugged = FALSE

Goto(label) == pc' = label

-----------------------------------------------------------------------------
(* open_with_init_strategy.  A failure up to the claim changes nothing.     *)

Claim == /\ pc = "idle"
         /\ Goto("init")
         /\ claimed' = TRUE /\ plugged' = TRUE
         /\ UNCHANGED << next, caller, slotVars, flagVars, streaming >>

(* replay_initialization, in the middle of the plan: interface 0 goes to alt *)
(* 5 before the scans whose acknowledgement may not come.                    *)
SelectAlternate == /\ pc = "init" /\ plugged
                   /\ ~streaming
                   /\ streaming' = TRUE
                   /\ UNCHANGED << pc, next, caller, slotVars, flagVars, claimed,
                                   plugged >>

(* Faulty variant: the interface is released on the alt the plan selected. *)
InitFailsStreaming == /\ pc = "init"
                      /\ Goto("idle")
                      /\ claimed' = FALSE
                      /\ UNCHANGED << next, caller, slotVars, flagVars,
                                      streaming, plugged >>

(* A failure of the replay, before or after alt 5, undoes alt and claim. *)
InitFails == /\ pc = "init"
             /\ Goto("idle")
             /\ claimed' = FALSE /\ streaming' = FALSE
             /\ UNCHANGED << next, caller, slotVars, flagVars, plugged >>

Initialized == /\ pc = "init" /\ streaming
               /\ Goto("submit") /\ next' = 1
               /\ submitted' = [i \in Transfers |-> FALSE]
               /\ transfer' = [i \in Transfers |-> "unallocated"]
               /\ cancelling' = {}
               /\ running' = TRUE /\ stopped' = FALSE /\ events' = {}
               /\ UNCHANGED << caller, deviceVars >>

(* allocate_and_submit: an error returns, and Drop stops the session. *)
AllocFails == /\ pc = "submit"
              /\ Goto("drop")
              /\ UNCHANGED << next, caller, slotVars, flagVars, deviceVars >>

SubmitFails == /\ pc = "submit"
               /\ transfer' = [transfer EXCEPT ![next] = "idle"]
               /\ Goto("drop")
               /\ UNCHANGED << next, caller, submitted, cancelling, flagVars,
                               deviceVars >>

Submit == /\ pc = "submit"
          /\ plugged
          /\ transfer' = [transfer EXCEPT ![next] = "inflight"]
          /\ Goto("store")
          /\ UNCHANGED << next, caller, submitted, cancelling, flagVars,
                          deviceVars >>

Store == /\ pc = "store"
         /\ submitted' = [submitted EXCEPT ![next] = TRUE]
         /\ IF next = N THEN Goto("poll") /\ UNCHANGED next
            ELSE Goto("submit") /\ next' = next + 1
         /\ UNCHANGED << caller, transfer, cancelling, flagVars, deviceVars >>

-----------------------------------------------------------------------------
(* The callback of transfer i.                                              *)

(* Leave the transfer to the session and say why. *)
Retire(i, kinds) ==
  /\ submitted' = [submitted EXCEPT ![i] = FALSE]
  /\ transfer' = [transfer EXCEPT ![i] = "idle"]
  /\ cancelling' = cancelling \ {i}
  /\ events' = events \cup kinds

(* Faulty variant: a failed transfer is only counted. *)
CompletionEventsUnreported(status) ==
  IF status = "COMPLETED" THEN {{"Packet"}, {"PacketError"}, {}} ELSE {{}}

(* Events of a callback before it decides whether to resubmit. *)
CompletionEvents(status) ==
  CASE status = "COMPLETED" -> {{"Packet"}, {"PacketError"}, {}}
    [] status = "CANCELLED" -> {{}}
    [] status = "FAILED"    -> {{"TransferFailed"}}

(* Faulty variant: a failed resubmission is not reported. *)
ResubmitSilently(i) ==
  /\ transfer[i] \in Awaiting
  /\ \E kinds \in CompletionEvents(transfer[i]) :
       IF running /\ transfer[i] # "FAILED"
       THEN \/ /\ plugged
               /\ transfer' = [transfer EXCEPT ![i] = "inflight"]
               /\ events' = events \cup kinds
               /\ UNCHANGED << submitted, cancelling, running >>
            \/ Retire(i, kinds) /\ UNCHANGED running
       ELSE Retire(i, kinds) /\ running' = FALSE

(* Faulty variant: resubmits without looking at the running flag. *)
ResubmitAlways(i) ==
  /\ transfer[i] \in Awaiting
  /\ \E kinds \in CompletionEvents(transfer[i]) :
       IF transfer[i] # "FAILED"
       THEN \/ /\ plugged
               /\ transfer' = [transfer EXCEPT ![i] = "inflight"]
               /\ events' = events \cup kinds
               /\ UNCHANGED << submitted, cancelling, running >>
            \/ Retire(i, kinds \cup {"SubmitFailed"}) /\ running' = FALSE
       ELSE Retire(i, kinds) /\ running' = FALSE

(* handle_transfer_callback: report, then resubmit if still running. *)
HandleTransfer(i) ==
  /\ transfer[i] \in Awaiting
  /\ \E kinds \in CompletionEvents(transfer[i]) :
       IF running /\ transfer[i] # "FAILED"
       THEN \/ /\ plugged
               /\ transfer' = [transfer EXCEPT ![i] = "inflight"]
               /\ events' = events \cup kinds
               /\ UNCHANGED << submitted, cancelling, running >>
            \/ Retire(i, kinds \cup {"SubmitFailed"}) /\ running' = FALSE
       ELSE Retire(i, kinds) /\ running' = FALSE

(* transfer_callback, when the handler panicked before resubmitting. *)
HandlerPanics(i) ==
  /\ transfer[i] = "COMPLETED"
  /\ Retire(i, {"CallbackPanicked"})
  /\ running' = FALSE

Callback(i) == /\ pc \in {"events", "reap"}
               /\ HandleTransfer(i) \/ HandlerPanics(i)
               /\ UNCHANGED << pc, next, caller, stopped, deviceVars >>

-----------------------------------------------------------------------------
(* poll, and the client's reaction to it (run_session, run_stream).         *)

PollBegins == /\ pc = "poll"
              /\ Goto("events")
              /\ UNCHANGED << next, caller, slotVars, flagVars, deviceVars >>

(* handle_events returned: the channel is drained and read. *)
PollEnds == /\ pc = "events"
            /\ Goto(IF events \cap Ending = {} THEN "poll" ELSE "stop")
            /\ events' = {}
            /\ UNCHANGED << next, caller, slotVars, running, stopped,
                            deviceVars >>

(* handle_events failed, a signal came or the sink closed. *)
ClientLeaves == /\ pc \in {"poll", "events"}
                /\ Goto("stop")
                /\ UNCHANGED << next, caller, slotVars, flagVars, deviceVars >>

-----------------------------------------------------------------------------
(* stop, called by the client and again by Drop.                            *)

Stop == /\ pc \in {"stop", "drop"}
        /\ IF stopped
           THEN Goto("idle") /\ UNCHANGED << next, caller, running, stopped >>
           ELSE /\ stopped' = TRUE
                /\ running' = FALSE
                /\ Goto("cancel") /\ next' = 1 /\ caller' = pc
        /\ UNCHANGED << slotVars, events, deviceVars >>

StepCancel == /\ IF next = N THEN Goto("reap") /\ UNCHANGED next
                 ELSE Goto("cancel") /\ next' = next + 1
              /\ UNCHANGED << caller, submitted, transfer, flagVars,
                              deviceVars >>

(* libusb_cancel_transfer: NOT_FOUND once completed, an error once the     *)
(* device is gone; neither stops the loop.                                 *)
Cancel == /\ pc = "cancel"
          /\ cancelling' = IF submitted[next] /\ plugged
                              /\ transfer[next] = "inflight"
                           THEN cancelling \cup {next} ELSE cancelling
          /\ StepCancel

(* Faulty variant: one handle_events call is taken to be enough. *)
ReapOnce == /\ pc = "reap"
            /\ Goto("restore")
            /\ UNCHANGED << next, caller, slotVars, flagVars, deviceVars >>

Reaped == /\ pc = "reap"
          /\ \A i \in Transfers : ~submitted[i]
          /\ Goto("restore")
          /\ UNCHANGED << next, caller, slotVars, flagVars, deviceVars >>

(* set_alternate_setting(0) and release_interface; their errors, of a device *)
(* that is gone, are logged.                                               *)
Restore == /\ pc = "restore"
           /\ streaming' = FALSE
           /\ Goto("release")
           /\ UNCHANGED << next, caller, slotVars, flagVars, claimed, plugged >>

Release == /\ pc = "release"
           /\ claimed' = FALSE
           /\ Goto("free")
           /\ UNCHANGED << next, caller, slotVars, flagVars, streaming,
                           plugged >>

(* libusb_free_transfer for every slot, then the client drops the session. *)
(* Freeing a transfer does not take it out of libusb's hands.              *)
Free == /\ pc = "free"
        /\ transfer' = [i \in Transfers |-> IF i \in owned THEN transfer[i]
                                            ELSE "unallocated"]
        /\ Goto(IF caller = "stop" THEN "drop" ELSE "idle")
        /\ UNCHANGED << next, caller, submitted, cancelling, flagVars,
                        deviceVars >>

-----------------------------------------------------------------------------
(* The kernel and the device (external).                                    *)

Complete(i) ==
  /\ transfer[i] = "inflight"
  /\ \E status \in {"FAILED"} \cup (IF plugged THEN {"COMPLETED"} ELSE {})
                    \cup (IF i \in cancelling THEN {"CANCELLED"} ELSE {}) :
       transfer' = [transfer EXCEPT ![i] = status]
  /\ UNCHANGED << pc, next, caller, submitted, cancelling, flagVars,
                  deviceVars >>

(* What the kernel must do: finish what was cancelled, or lost its device. *)
MustComplete(i) == /\ i \in cancelling \/ ~plugged
                   /\ Complete(i)

Unplug == /\ plugged
          /\ plugged' = FALSE
          /\ UNCHANGED << pc, next, caller, slotVars, flagVars, claimed,
                          streaming >>

-----------------------------------------------------------------------------
Opening == SelectAlternate \/ InitFails \/ Initialized \/ AllocFails
           \/ SubmitFails \/ Submit \/ Store
Polling == PollBegins \/ PollEnds
Stopping == Stop \/ Cancel \/ Reaped \/ Restore \/ Release \/ Free

Next == \/ Claim \/ Opening \/ Polling \/ ClientLeaves \/ Stopping
        \/ Unplug
        \/ \E i \in Transfers : Complete(i) \/ Callback(i)

(***************************************************************************)
(* The program's thread never rests inside open, poll or stop; handle_     *)
(* events returns within its timeout and, called again and again, runs the *)
(* callback of every completed transfer.                                   *)
(***************************************************************************)
Fairness == /\ WF_vars(Opening)
            /\ WF_vars(Polling)
            /\ WF_vars(Stopping)
            /\ \A i \in Transfers : /\ WF_vars(MustComplete(i))
                                    /\ SF_vars(Callback(i))

Spec == Init /\ [][Next]_vars
FairSpec == Spec /\ Fairness

-----------------------------------------------------------------------------
Labels == {"idle", "init", "submit", "store", "poll", "events", "stop", "drop",
           "cancel", "reap", "restore", "release", "free"}

(* Every variable has its type. *)
TypeOK == /\ pc \in Labels
          /\ next \in Transfers
          /\ caller \in {"stop", "drop"}
          /\ submitted \in [Transfers -> BOOLEAN]
          /\ transfer \in [Transfers ->
                             {"unallocated", "idle", "inflight"} \cup Awaiting]
          /\ cancelling \subseteq Transfers
          /\ running \in BOOLEAN /\ stopped \in BOOLEAN
          /\ events \subseteq EventKinds
          /\ claimed \in BOOLEAN /\ streaming \in BOOLEAN /\ plugged \in BOOLEAN

(* stop frees a transfer, and with it the buffer and slot its callback       *)
(* uses, only when libusb no longer holds it: at that point every transfer   *)
(* was reaped, through any mix of completions, cancellations and failures.   *)
NothingFreedInFlight == pc \in {"free", "idle", "init"} => owned = {}

(* open_with_init_strategy, stop and Drop: interface 0 is never released on  *)
(* alt 5, and every way out of a session, a replay that failed half-way      *)
(* included, has released it.                                                *)
InterfaceGivenBack == /\ streaming => claimed
                      /\ pc = "idle" => ~claimed

(* docs/production-driver.md: every transfer is cancelled and reaped before  *)
(* interface 0 returns to alt 0.                                             *)
ReapedBeforeRestore == ~streaming \/ ~claimed => owned = {}

(* handle_transfer_callback: while the running flag is up and the session is *)
(* polled, the whole pool is in libusb's hands: no transfer falls out of     *)
(* rotation unnoticed, however completions and failed resubmissions fall.    *)
PoolIsWhole == pc \in {"poll", "events"} /\ running => owned = Transfers

(* run_session goes back to polling only a session that is still running:    *)
(* whatever lowered the running flag put an ending event in the channel.     *)
NoDeadPolling == pc = "poll" => running

(* stop returns: once called, the reap loop ends and the interface is given  *)
(* back, even if the device is unplugged meanwhile.                          *)
StopReturns == pc \in {"stop", "drop"} ~> pc = "idle"

(* An unplugged camera ends the session without help from the user, so that  *)
(* run_stream can wait for it to return.                                     *)
UnplugEndsSession == (pc = "poll" /\ ~plugged) ~> pc = "idle"

(* The session keeps its promise about the transfers it lends.               *)
phase == CASE pc \in {"idle", "init"} -> "closed"
           [] pc \in {"submit", "store"} -> "starting"
           [] pc \in {"poll", "events"} -> "streaming"
           [] OTHER -> "draining"

Contract == INSTANCE SessionContract
              WITH Transfers <- Transfers, phase <- phase, owned <- owned
ContractSpec == Contract!Spec
=============================================================================
