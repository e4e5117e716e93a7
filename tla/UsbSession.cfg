SPECIFICATION FairSpec
CONSTANT N = 3
INVARIANT NothingFreedInFlight
INVARIANT InterfaceGivenBack
INVARIANT PoolIsWhole
INVARIANT NoDeadPolling
PROPERTY StopReturns
PROPERTY UnplugEndsSession
PROPERTY ContractSpec
