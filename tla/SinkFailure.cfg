SPECIFICATION Spec
CONSTANTS
  Ports = {"001-1"}
  FatalOpens = FALSE
  MaxFrames = 4
INVARIANT SinkFailureReported
