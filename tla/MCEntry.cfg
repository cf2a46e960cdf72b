CONSTANTS
  None = None
  vac = vac
  mop = mop
  Devices = {vac, mop}
  Transport <- OneOfEach
  MaxAttempts = 2
  MaxQueued = 1
  MaxRestarts = 1
CHECK_DEADLOCK FALSE
SPECIFICATION FairSpec
INVARIANT FilesOutliveClient
INVARIANT OfferedIsConnected
PROPERTY LegacyDroppedOnceStored
PROPERTY UnloadLeavesNothing
PROPERTY SetupEnds
