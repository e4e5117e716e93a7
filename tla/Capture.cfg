SPECIFICATION FairSpec
CONSTANTS
  NONE = NONE
  Quantum = 40
  MaxJitter = 40
  MaxTime = 200
  MaxQueued = 2
  AudioDelay = 40
  Worlds = {"late", "lost"}
  Resets = TRUE
  Overruns = TRUE
  Freezes = FALSE
INVARIANT AvOffsetPreserved
INVARIANT LossIsReported
INVARIANT BothStopped
INVARIANT FinalizedOnSuccess
PROPERTY SignalEndsCapture
