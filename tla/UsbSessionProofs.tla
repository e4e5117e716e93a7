-------------------------- MODULE UsbSessionProofs --------------------------
(***************************************************************************)
(* Theorems about UsbSession, for a pool of any size.                      *)
(*                                                                         *)
(* The argument rests on one fact about the submitted flags: a transfer    *)
(* libusb holds has its flag up (Tracked), but for the one the opening     *)
(* loop submitted and has not marked yet.  The reap loop leaves only with  *)
(* every flag down, so from there on libusb holds nothing (Cleared).       *)
(***************************************************************************)
EXTENDS UsbSession, TLAPS

Held(i) == transfer[i] \in {"inflight"} \cup Awaiting

Tracked == \A i \in Transfers :
             Held(i) => submitted[i] \/ (pc = "store" /\ i = next)

Cleared == pc \in {"restore", "release", "free", "idle", "init"}
             \/ (pc = "drop" /\ stopped)
           => \A i \in Transfers : ~submitted[i]

(* While the session opens, the transfers up to the loop's index are lent,  *)
(* and only those.                                                          *)
Filling == pc \in {"submit", "store"} =>
             /\ running
             /\ \A i \in Transfers : /\ i < next => Held(i)
                                     /\ i > next => ~Held(i)
             /\ Held(next) <=> pc = "store"

(* The flags of the session at each stage. *)
Staged == /\ pc \in {"submit", "store", "poll", "events", "stop"} => ~stopped
          /\ pc \in {"cancel", "reap", "restore", "release", "free"}
               => stopped /\ ~running

Interface ==
  /\ pc \in {"submit", "store", "poll", "events", "stop", "cancel", "reap",
             "restore"} \/ (pc = "drop" /\ ~stopped) => claimed /\ streaming
  /\ pc \in {"free", "idle"} \/ (pc = "drop" /\ stopped)
       => ~claimed /\ ~streaming
  /\ pc = "init" => claimed
  /\ pc = "release" => ~streaming

(* Whatever lowers the running flag inside a poll queues an ending event. *)
Reported == /\ pc = "events" /\ ~running => events \cap Ending # {}
            /\ pc = "poll" => running

Pool == pc \in {"poll", "events"} /\ running
          => \A i \in Transfers : Held(i)

IInv == /\ TypeOK
        /\ Tracked /\ Cleared /\ Filling /\ Staged /\ Interface /\ Reported
        /\ Pool

(* The pool has a first transfer, as NAssumption says. *)
LEMMA PoolNotEmpty == N \in Nat /\ 1 \in Transfers
BY NAssumption DEF Transfers

USE PoolNotEmpty DEF Transfers, Held, Awaiting

(* A fresh program satisfies the inductive invariant. *)
LEMMA InitInvariant == Init => IInv
<1> SUFFICES ASSUME Init PROVE IInv
  OBVIOUS
<1> USE DEF Init, Fresh
<1>1. TypeOK BY DEF TypeOK, Labels, EventKinds
<1>2. \A i \in Transfers : ~Held(i) /\ ~submitted[i]
  OBVIOUS
<1>3. Tracked /\ Cleared BY <1>2 DEF Tracked, Cleared
<1>4. Filling /\ Staged /\ Interface /\ Reported /\ Pool
  BY DEF Filling, Staged, Interface, Reported, Pool
<1> QED BY <1>1, <1>3, <1>4 DEF IInv

(* The types are kept by every step of the program, the kernel and the user. *)
LEMMA TypeStep == TypeOK /\ [Next]_vars => TypeOK'
<1> SUFFICES ASSUME TypeOK, [Next]_vars PROVE TypeOK'
  OBVIOUS
<1> USE DEF TypeOK, Labels, EventKinds, Goto, slotVars, flagVars, deviceVars
<1>1. CASE Claim BY <1>1 DEF Claim
<1>2. CASE Opening
  <2>1. CASE SelectAlternate \/ InitFails \/ AllocFails
    BY <2>1 DEF SelectAlternate, InitFails, AllocFails
  <2>2. CASE Initialized BY <2>2 DEF Initialized
  <2>3. CASE SubmitFails BY <2>3 DEF SubmitFails
  <2>4. CASE Submit BY <2>4 DEF Submit
  <2>5. CASE Store BY <2>5 DEF Store
  <2> QED BY <1>2, <2>1, <2>2, <2>3, <2>4, <2>5 DEF Opening
<1>3. CASE Polling BY <1>3 DEF Polling, PollBegins, PollEnds
<1>4. CASE ClientLeaves BY <1>4 DEF ClientLeaves
<1>5. CASE Stopping
  <2>1. CASE Stop BY <2>1 DEF Stop
  <2>2. CASE Cancel BY <2>2 DEF Cancel, StepCancel
  <2>3. CASE Reaped \/ Restore \/ Release
    BY <2>3 DEF Reaped, Restore, Release
  <2>4. CASE Free BY <2>4 DEF Free
  <2> QED BY <1>5, <2>1, <2>2, <2>3, <2>4 DEF Stopping
<1>6. CASE Unplug BY <1>6 DEF Unplug
<1>7. ASSUME NEW i \in Transfers, Complete(i) PROVE TypeOK'
  BY <1>7 DEF Complete
<1>8. ASSUME NEW i \in Transfers, Callback(i) PROVE TypeOK'
  <2>1. CASE HandleTransfer(i)
    BY <1>8, <2>1 DEF Callback, HandleTransfer, Retire, CompletionEvents
  <2>2. CASE HandlerPanics(i)
    BY <1>8, <2>2 DEF Callback, HandlerPanics, Retire
  <2> QED BY <1>8, <2>1, <2>2 DEF Callback
<1>9. CASE UNCHANGED vars BY <1>9 DEF vars
<1> QED BY <1>1, <1>2, <1>3, <1>4, <1>5, <1>6, <1>7, <1>8, <1>9 DEF Next

(* What a step must keep besides the types. *)
Kept == Tracked /\ Cleared /\ Filling /\ Staged /\ Interface /\ Reported /\ Pool

(* The steps of opening keep the invariant. *)
LEMMA OpeningStep == IInv /\ TypeOK' /\ (Claim \/ Opening) => Kept'
<1> SUFFICES ASSUME IInv, TypeOK', Claim \/ Opening PROVE Kept'
  OBVIOUS
<1> USE DEF IInv, Kept, TypeOK, Labels, Goto, slotVars, flagVars, deviceVars,
            Tracked, Cleared, Filling, Staged, Interface, Reported, Pool
<1>1. CASE Claim
  <2>1. \A i \in Transfers : ~submitted[i] /\ ~Held(i)
    BY <1>1 DEF Claim
  <2>2. \A i \in Transfers : ~submitted'[i] /\ ~Held(i)'
    BY <1>1, <2>1 DEF Claim
  <2>3. pc' = "init" /\ claimed' BY <1>1 DEF Claim
  <2> QED BY <2>2, <2>3
<1>2. CASE InitFails
  <2>1. \A i \in Transfers : ~submitted[i] /\ ~Held(i)
    BY <1>2 DEF InitFails
  <2>2. \A i \in Transfers : ~submitted'[i] /\ ~Held(i)'
    BY <1>2, <2>1 DEF InitFails
  <2>3. pc' = "idle" /\ ~claimed' /\ ~streaming' BY <1>2 DEF InitFails
  <2> QED BY <2>2, <2>3
<1>3. CASE Initialized
  <2>1. \A i \in Transfers : ~submitted'[i] /\ ~Held(i)'
    BY <1>3 DEF Initialized
  <2>2. /\ pc' = "submit" /\ next' = 1
        /\ running' /\ ~stopped' /\ claimed' /\ streaming'
    BY <1>3 DEF Initialized
  <2> QED BY <2>1, <2>2
<1>4. CASE AllocFails BY <1>4 DEF AllocFails
<1>5. CASE SubmitFails BY <1>5 DEF SubmitFails
<1>6. CASE Submit BY <1>6 DEF Submit
<1>7. CASE Store BY <1>7 DEF Store
<1>8. CASE SelectAlternate BY <1>8 DEF SelectAlternate
<1> QED BY <1>1, <1>2, <1>3, <1>4, <1>5, <1>6, <1>7, <1>8 DEF Opening

(* The steps of polling and leaving keep the invariant. *)
LEMMA PollingStep == IInv /\ TypeOK' /\ (Polling \/ ClientLeaves) => Kept'
<1> SUFFICES ASSUME IInv, TypeOK', Polling \/ ClientLeaves PROVE Kept'
  OBVIOUS
<1> USE DEF IInv, Kept, TypeOK, Labels, Goto, slotVars, flagVars, deviceVars,
            Tracked, Cleared, Filling, Staged, Interface, Reported, Pool
<1>1. CASE PollBegins BY <1>1 DEF PollBegins
<1>2. CASE PollEnds BY <1>2 DEF PollEnds
<1>3. CASE ClientLeaves BY <1>3 DEF ClientLeaves
<1> QED BY <1>1, <1>2, <1>3 DEF Polling

(* The steps of stop keep the invariant. *)
LEMMA StoppingStep == IInv /\ TypeOK' /\ Stopping => Kept'
<1> SUFFICES ASSUME IInv, TypeOK', Stopping PROVE Kept'
  OBVIOUS
<1> USE DEF IInv, Kept, TypeOK, Labels, Goto, slotVars, flagVars, deviceVars,
            Tracked, Cleared, Filling, Staged, Interface, Reported, Pool
<1>1. CASE Stop BY <1>1 DEF Stop
<1>2. CASE Cancel BY <1>2 DEF Cancel, StepCancel
<1>3. CASE Reaped BY <1>3 DEF Reaped
<1>4. CASE Restore BY <1>4 DEF Restore
<1>5. CASE Release BY <1>5 DEF Release
<1>6. CASE Free
  <2>1. \A i \in Transfers : ~submitted[i] /\ ~Held(i)
    BY <1>6 DEF Free
  <2>2. /\ submitted' = submitted /\ stopped' = stopped
        /\ claimed' = claimed /\ streaming' = streaming
    BY <1>6 DEF Free
  <2>3. \A i \in Transfers : ~submitted'[i] /\ ~Held(i)'
    BY <1>6, <2>1, <2>2 DEF Free, owned
  <2>4. /\ stopped /\ ~claimed /\ ~streaming
        /\ pc' \in {"drop", "idle"}
    BY <1>6 DEF Free
  <2> QED BY <2>2, <2>3, <2>4
<1> QED BY <1>1, <1>2, <1>3, <1>4, <1>5, <1>6 DEF Stopping

(* The kernel completing a transfer and a device going away keep it. *)
LEMMA WorldStep == ASSUME IInv, TypeOK',
                          Unplug \/ \E i \in Transfers : Complete(i)
                   PROVE Kept'
<1> USE DEF IInv, Kept, TypeOK, Labels, slotVars, flagVars, deviceVars,
            Tracked, Cleared, Filling, Staged, Interface, Reported, Pool
<1>1. CASE Unplug BY <1>1 DEF Unplug
<1>2. ASSUME NEW i \in Transfers, Complete(i) PROVE Kept'
  <2>1. PICK status \in Awaiting :
          transfer' = [transfer EXCEPT ![i] = status]
    BY <1>2 DEF Complete
  <2> QED BY <1>2, <2>1 DEF Complete
<1> QED BY <1>1, <1>2

(* A callback keeps it: a transfer stays with libusb and marked, or leaves   *)
(* libusb's hands and is unmarked, and then the running flag is down and an  *)
(* ending event is queued.                                                   *)
LEMMA CallbackStep == ASSUME IInv, TypeOK', NEW i \in Transfers, Callback(i)
                      PROVE Kept'
<1> USE DEF IInv, TypeOK, Labels, EventKinds, slotVars, flagVars, deviceVars
<1>1. /\ pc \in {"events", "reap"} /\ Held(i)
      /\ UNCHANGED << pc, next, caller, stopped, deviceVars >>
  BY DEF Callback, HandleTransfer, HandlerPanics
<1>2. \/ /\ transfer' = [transfer EXCEPT ![i] = "inflight"]
         /\ running /\ UNCHANGED << submitted, running >>
      \/ /\ submitted' = [submitted EXCEPT ![i] = FALSE]
         /\ transfer' = [transfer EXCEPT ![i] = "idle"]
         /\ ~running'
  BY DEF Callback, HandleTransfer, HandlerPanics, Retire
<1>3. /\ events \subseteq events'
      /\ running /\ ~running' => events' \cap Ending # {}
  <2>1. CASE HandleTransfer(i)
    <3>1. PICK kinds \in CompletionEvents(transfer[i]) :
            IF running /\ transfer[i] # "FAILED"
            THEN \/ events' = events \cup kinds /\ UNCHANGED running
                 \/ events' = events \cup (kinds \cup {"SubmitFailed"})
            ELSE events' = events \cup kinds
      BY <2>1 DEF HandleTransfer, Retire
    <3>2. transfer[i] = "FAILED" => kinds = {"TransferFailed"}
      BY <3>1 DEF CompletionEvents
    <3> QED BY <3>1, <3>2 DEF Ending
  <2>2. CASE HandlerPanics(i)
    BY <2>2 DEF HandlerPanics, Retire, Ending
  <2> QED BY <2>1, <2>2 DEF Callback
<1>4. Tracked' /\ Pool' BY <1>1, <1>2 DEF Tracked, Pool
<1>5. Reported' BY <1>1, <1>2, <1>3 DEF Reported
<1>6. (Cleared /\ Filling /\ Staged /\ Interface)'
  BY <1>1, <1>2 DEF Cleared, Filling, Staged, Interface
<1> QED BY <1>4, <1>5, <1>6 DEF Kept

(* IInv is an inductive invariant of the session. *)
THEOREM Invariance == Spec => []IInv
<1>1. IInv /\ [Next]_vars => IInv'
  <2> SUFFICES ASSUME IInv, [Next]_vars PROVE IInv'
    OBVIOUS
  <2>1. TypeOK' BY TypeStep DEF IInv
  <2>2. CASE UNCHANGED vars
    BY <2>2 DEF vars, slotVars, flagVars, deviceVars, IInv, TypeOK, Tracked,
                Cleared, Filling, Staged, Interface, Reported, Pool
  <2>3. CASE Next
    <3>1. Kept' BY <2>1, <2>3, OpeningStep, PollingStep, StoppingStep,
                   WorldStep, CallbackStep DEF Next
    <3> QED BY <2>1, <3>1 DEF IInv, Kept
  <2> QED BY <2>2, <2>3
<1> QED BY <1>1, InitInvariant, PTL DEF Spec

(* stop frees a transfer only when libusb no longer holds it, and the        *)
(* interface returns to alt 0 only after every transfer was reaped.          *)
THEOREM FreeSafety == Spec => [](NothingFreedInFlight /\ ReapedBeforeRestore)
<1>1. IInv => NothingFreedInFlight
  BY DEF IInv, TypeOK, NothingFreedInFlight, owned, Tracked, Cleared
<1>2. IInv => ReapedBeforeRestore
  BY DEF IInv, TypeOK, Labels, ReapedBeforeRestore, owned, Tracked, Cleared,
         Interface
<1> QED BY <1>1, <1>2, Invariance, PTL

(* A session that is still polled and running has its whole pool in flight,  *)
(* and one that is no longer running is never polled again.                  *)
THEOREM PollSafety == Spec => [](PoolIsWhole /\ NoDeadPolling)
<1>1. IInv => PoolIsWhole /\ NoDeadPolling
  BY DEF IInv, PoolIsWhole, NoDeadPolling, owned, Pool, Reported
<1> QED BY <1>1, Invariance, PTL

(* run_session goes back to polling only a session that is still running: an *)
(* ending event always reaches the loop with the flag's fall.                *)
THEOREM LivePolling == Spec => []NoDeadPolling
BY PollSafety, PTL

(* The interface is never released on alt 5, and every way out of a session  *)
(* releases it: a failed replay, before or after it selected alt 5, a failed *)
(* submission, and stop called by the client or by Drop.                     *)
THEOREM InterfaceSafety == Spec => []InterfaceGivenBack
<1>1. IInv => InterfaceGivenBack
  BY DEF IInv, TypeOK, Labels, InterfaceGivenBack, Interface
<1> QED BY <1>1, Invariance, PTL

(* Every callback takes back one transfer or leaves libusb's share alone. *)
LEMMA CallbackContract ==
  ASSUME IInv, NEW i \in Transfers, Callback(i)
  PROVE  [Contract!Next]_(Contract!contractVars)
<1> USE DEF IInv, TypeOK
<1>1. /\ pc \in {"events", "reap"} /\ i \in owned /\ pc' = pc
      /\ \/ transfer' = [transfer EXCEPT ![i] = "inflight"]
         \/ transfer' = [transfer EXCEPT ![i] = "idle"]
  BY DEF Callback, HandleTransfer, HandlerPanics, Retire, owned
<1>2. CASE transfer' = [transfer EXCEPT ![i] = "inflight"]
  <2>1. owned' = owned BY <1>1, <1>2 DEF owned
  <2> QED BY <1>1, <2>1 DEF Contract!contractVars, phase
<1>3. CASE transfer' = [transfer EXCEPT ![i] = "idle"]
  <2>1. owned' = owned \ {i} BY <1>1, <1>3 DEF owned
  <2>2. Contract!TakeBack BY <1>1, <2>1 DEF Contract!TakeBack, phase
  <2> QED BY <2>2 DEF Contract!Next
<1> QED BY <1>1, <1>2, <1>3

(* Every step of opening lends one transfer, begins or abandons the session, *)
(* or leaves libusb's share alone.                                           *)
LEMMA OpeningContract ==
  ASSUME IInv, Claim \/ Opening
  PROVE  [Contract!Next]_(Contract!contractVars)
<1> USE DEF IInv, TypeOK, Goto, slotVars, phase, Contract!contractVars
<1>1. CASE Claim \/ SelectAlternate \/ InitFails
  <2>1. owned' = owned BY <1>1 DEF Claim, SelectAlternate, InitFails, owned
  <2> QED BY <1>1, <2>1 DEF Claim, SelectAlternate, InitFails
<1>2. CASE Initialized
  <2>1. owned' = {} BY <1>2 DEF Initialized, owned
  <2>2. Contract!Start BY <1>2, <2>1 DEF Initialized, Contract!Start
  <2> QED BY <2>2 DEF Contract!Next
<1>3. CASE AllocFails \/ SubmitFails
  <2>1. ~Held(next) BY <1>3 DEF AllocFails, SubmitFails, Filling
  <2>2. owned' = owned
    BY <1>3, <2>1 DEF AllocFails, SubmitFails, owned
  <2>3. Contract!Drain
    BY <1>3, <2>2 DEF AllocFails, SubmitFails, Contract!Drain
  <2> QED BY <2>3 DEF Contract!Next
<1>4. CASE Submit
  <2>1. ~Held(next) BY <1>4 DEF Submit, Filling
  <2>2. next \in Transfers \ owned /\ owned' = owned \cup {next}
    BY <1>4, <2>1 DEF Submit, owned
  <2>3. Contract!Lend BY <1>4, <2>2 DEF Submit, Contract!Lend
  <2> QED BY <2>3 DEF Contract!Next
<1>5. CASE Store
  <2>1. owned' = owned BY <1>5 DEF Store, owned
  <2>2. CASE next = N
    <3>1. \A i \in Transfers : Held(i) BY <1>5, <2>2 DEF Store, Filling
    <3>2. owned = Transfers BY <3>1 DEF owned
    <3>3. Contract!Stream
      BY <1>5, <2>1, <2>2, <3>2 DEF Store, Contract!Stream
    <3> QED BY <3>3 DEF Contract!Next
  <2>3. CASE next # N BY <1>5, <2>1, <2>3 DEF Store
  <2> QED BY <2>2, <2>3
<1> QED BY <1>1, <1>2, <1>3, <1>4, <1>5 DEF Opening

(* Polling changes nothing of what libusb holds; leaving starts the drain;   *)
(* the session closes only with everything taken back.                       *)
LEMMA LeavingContract ==
  ASSUME IInv, IInv', Polling \/ ClientLeaves \/ Stopping
  PROVE  [Contract!Next]_(Contract!contractVars)
<1> USE DEF IInv, TypeOK, Goto, slotVars, phase, Contract!contractVars
<1>1. owned' = owned
  <2>1. CASE Free BY <2>1 DEF Free, owned
  <2>2. CASE ~Free
    <3>1. transfer' = transfer
      BY <2>2 DEF Polling, PollBegins, PollEnds, ClientLeaves, Stopping, Stop,
                  Cancel, StepCancel, Reaped, Restore, Release
    <3> QED BY <3>1 DEF owned
  <2> QED BY <2>1, <2>2
<1>2. CASE phase' = phase BY <1>1, <1>2
<1>3. CASE phase = "streaming" /\ phase' = "draining"
  BY <1>1, <1>3 DEF Contract!Next, Contract!Drain
<1>4. CASE phase = "draining" /\ phase' = "closed"
  <2>1. pc' \in {"idle", "init"} BY <1>4, TypeStep DEF Labels
  <2>2. owned' = {} BY <2>1 DEF owned, Tracked, Cleared
  <2> QED BY <1>1, <1>4, <2>2 DEF Contract!Next, Contract!Close
<1>5. \/ phase' = phase
      \/ phase = "streaming" /\ phase' = "draining"
      \/ phase = "draining" /\ phase' = "closed"
  <2>1. CASE Polling \/ ClientLeaves
    BY <2>1 DEF Polling, PollBegins, PollEnds, ClientLeaves
  <2>2. CASE Stopping
    BY <2>2 DEF Stopping, Stop, Cancel, StepCancel, Reaped, Restore, Release,
                Free
  <2> QED BY <2>1, <2>2
<1> QED BY <1>2, <1>3, <1>4, <1>5

(* The session implements its contract: whatever the order of completions,   *)
(* cancellations, failures and unplugging, transfers are lent only while it  *)
(* opens, libusb's share only shrinks once it drains, and it is closed only  *)
(* when libusb holds nothing.                                                *)
THEOREM Implements == Spec => ContractSpec
<1>1. Init => Contract!Init
  BY DEF Init, Fresh, Contract!Init, phase, owned
<1>2. IInv /\ IInv' /\ [Next]_vars
        => [Contract!Next]_(Contract!contractVars)
  <2> SUFFICES ASSUME IInv, IInv', [Next]_vars
               PROVE  [Contract!Next]_(Contract!contractVars)
    OBVIOUS
  <2>1. CASE UNCHANGED vars
    BY <2>1 DEF vars, slotVars, Contract!contractVars, phase, owned
  <2>2. CASE Unplug
    BY <2>2 DEF Unplug, slotVars, Contract!contractVars, phase, owned
  <2>3. ASSUME NEW i \in Transfers, Complete(i)
        PROVE  [Contract!Next]_(Contract!contractVars)
    <3>1. PICK status \in Awaiting :
            transfer' = [transfer EXCEPT ![i] = status]
      BY <2>3 DEF Complete
    <3>2. owned' = owned
      BY <2>3, <3>1 DEF Complete, owned, IInv, TypeOK
    <3>3. pc' = pc BY <2>3 DEF Complete
    <3> QED BY <3>2, <3>3 DEF Contract!contractVars, phase
  <2> QED BY <2>1, <2>2, <2>3, OpeningContract, LeavingContract,
             CallbackContract DEF Next
<1> QED BY <1>1, <1>2, Invariance, PTL DEF Spec, ContractSpec, Contract!Spec
=============================================================================
