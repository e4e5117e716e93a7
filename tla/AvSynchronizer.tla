--------------------------- MODULE AvSynchronizer ---------------------------
(***************************************************************************)
(* The A/V timeline of handycam-core (sync.rs).  Positions, observations   *)
(* and PTS are in milliseconds: the code's microseconds are exact          *)
(* multiples for camera timestamps and for whole 40 ms audio periods.      *)
(* video_timing and audio_timing are one function of the track, and the    *)
(* stream start is the session origin, time 0, as run_capture_session      *)
(* sets it.  u64 saturation is out of reach but for the subtraction at 0.  *)
(***************************************************************************)
EXTENDS Integers

CONSTANT NONE   \* Option::None

Tracks == {"video", "audio"}

ClockAnchor == [position : Nat, pts : Nat]

ASSUME SynchronizerAssumption == NONE \notin ClockAnchor /\ NONE \notin Nat

Synchronizer == [anchor : [Tracks -> ClockAnchor \cup {NONE}],
                 last_end : [Tracks -> Nat \cup {NONE}]]

NewSynchronizer == [anchor |-> [t \in Tracks |-> NONE],
                    last_end |-> [t \in Tracks |-> NONE]]

(* Faulty variant: the clock is scaled, by half its advance. *)
AnchoredPtsSlow(anchor, position) ==
  IF position >= anchor.position
  THEN anchor.pts + (position - anchor.position) \div 2
  ELSE anchor.pts

AnchoredPts(anchor, position) ==
  IF position >= anchor.position THEN anchor.pts + (position - anchor.position)
  ELSE IF anchor.pts >= anchor.position - position
  THEN anchor.pts - (anchor.position - position)
  ELSE 0

(* The anchor of the track, set by its first event and never again. *)
AnchorFor(s, track, event) ==
  IF s.anchor[track] = NONE
  THEN [position |-> event.position, pts |-> event.observed]
  ELSE s.anchor[track]

(* Faulty variant: the source's own flag is not looked at. *)
DiscontinuityByPosition(s, track, event) ==
  s.last_end[track] # NONE /\ event.position # s.last_end[track]

Discontinuity(s, track, event) ==
  \/ event.source_discontinuity
  \/ s.last_end[track] # NONE /\ event.position # s.last_end[track]

Timing(s, track, event) ==
  LET pts == AnchoredPts(AnchorFor(s, track, event), event.position)
  IN  [pts |-> pts, duration |-> event.duration,
       observed_drift |-> event.observed - pts,
       discontinuity |-> Discontinuity(s, track, event)]

AfterTiming(s, track, event) ==
  [anchor   |-> [s.anchor EXCEPT ![track] = AnchorFor(s, track, event)],
   last_end |-> [s.last_end EXCEPT ![track] = event.position + event.duration]]
=============================================================================
