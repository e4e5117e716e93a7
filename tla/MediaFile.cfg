SPECIFICATION Spec
CONSTANTS
  Captures <- MCCaptures
  Capacity = 64
  MaxFlushes = 1
INVARIANT PictureSurvives
PROPERTY RecordingSpec
PROPERTY OnlyDurationRewritten
