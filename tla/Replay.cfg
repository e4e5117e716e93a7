SPECIFICATION FairSpec
CONSTANTS
  MaxItems = 4
  MaxFrames = 6
INVARIANT OutputFailureReported
INVARIANT ReplayComplete
PROPERTY ReplayEnds
