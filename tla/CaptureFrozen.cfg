SPECIFICATION Spec
CONSTANTS
  NONE = NONE
  Quantum = 40
  MaxJitter = 40
  MaxTime = 400
  MaxQueued = 1
  AudioDelay = 0
  Worlds = {"lost"}
  Resets = FALSE
  Overruns = FALSE
  Freezes = TRUE
INVARIANT AvOffsetPreserved
