SPECIFICATION FairSpec
CONSTANTS
  NONE = NONE
  Quantum = 40
  MaxJitter = 0
  MaxTime = 400
  MaxQueued = 1
  AudioDelay = 0
  Worlds = {"lost"}
  Resets = TRUE
  Overruns = FALSE
  Freezes = FALSE
PROPERTY VideoNeverRewinds
