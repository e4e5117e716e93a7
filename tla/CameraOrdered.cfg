SPECIFICATION Spec
CONSTANTS
  NONE = NONE
  MaxRecordSize = 32
  LastPart = 2
  Sizes = {8, 16}
  ClockSteps = {0, 40, 2047}
  Early = 2
  Late = 0
  FalseMarkers = {"unflagged"}
  SilentLoss = FALSE
  MaxRecords = 7
INVARIANT FrameIsOneRecord
INVARIANT TimestampExact
INVARIANT RecoversInFourHeaders
PROPERTY FrameChain
