CONSTANTS
  None = None
  r1 = r1
  r2 = r2
  turbo = turbo
  deep = deep
  RoomIds = {r1, r2}
  MapIds = {1, 2}
  Scenes = {1}
  Params = {turbo}
  MaxCalls = 2
  MaxMoves = 3
  MaxFaults = 1
CHECK_DEADLOCK FALSE
SPECIFICATION Spec
INVARIANT TargetsAreTheJobs
PROPERTY CustomisedAsAsked
