--------------------------- MODULE SessionContract ---------------------------
(***************************************************************************)
(* What a USB session promises about the asynchronous transfers it lends   *)
(* to libusb, with no word on flags, callbacks or cancellation:            *)
(*   - transfers are lent only while the session starts, and a lost one is *)
(*     never lent again;                                                   *)
(*   - once the session drains, libusb's share only shrinks;               *)
(*   - a session is closed only when libusb holds nothing of it.           *)
(***************************************************************************)
CONSTANT Transfers

VARIABLES phase,   \* closed, starting, streaming or draining
          owned    \* transfers libusb may still touch or call back

contractVars == << phase, owned >>

Init == phase = "closed" /\ owned = {}

Start == /\ phase = "closed"
         /\ phase' = "starting"
         /\ owned' = {}

Lend == /\ phase = "starting"
        /\ \E i \in Transfers \ owned : owned' = owned \cup {i}
        /\ phase' = "starting"

(* Streaming begins only with every transfer lent. *)
Stream == /\ phase = "starting"
          /\ owned = Transfers
          /\ phase' = "streaming"
          /\ owned' = owned

TakeBack == /\ phase \in {"streaming", "draining"}
            /\ \E i \in owned : owned' = owned \ {i}
            /\ phase' = phase

Drain == /\ phase \in {"starting", "streaming"}
         /\ phase' = "draining"
         /\ owned' = owned

Close == /\ phase = "draining"
         /\ owned = {}
         /\ phase' = "closed"
         /\ owned' = {}

Next == Start \/ Lend \/ Stream \/ TakeBack \/ Drain \/ Close

Spec == Init /\ [][Next]_contractVars
==============================================================================
