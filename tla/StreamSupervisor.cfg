SPECIFICATION FairSpec
CONSTANTS
  Ports = {"001-1", "001-2"}
  FatalOpens = TRUE
  MaxFrames = 4
INVARIANT OneSessionAtATime
INVARIANT NoAcceptedFrameLost
INVARIANT PipeCloseIsClean
PROPERTY SignalExits
PROPERTY SinkEndExits
PROPERTY Reconnects
PROPERTY SingleSession
PROPERTY AbsentCameraAwaited
