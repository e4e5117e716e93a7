SPECIFICATION FairSpec
CONSTANTS
  Period = 3
  Buffer = 7
  MaxTime = 17
  NONE = NONE
INVARIANT ChunkIsOnePeriod
INVARIANT GapReported
INVARIANT EndAnnounced
PROPERTY StopJoins
