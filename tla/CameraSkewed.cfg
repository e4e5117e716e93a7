SPECIFICATION Spec
CONSTANTS
  NONE = NONE
  MaxRecordSize = 64
  LastPart = 2
  Sizes = {8, 16}
  ClockSteps = {1100}
  Early = 1
  Late = 2
  FalseMarkers = {}
  SilentLoss = TRUE
  MaxRecords = 5
INVARIANT FrameIsWholeRecords
INVARIANT TimestampCongruent
INVARIANT RecordBounded
