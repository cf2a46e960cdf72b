CONSTANTS
  Faults = {7002}
  Suctions <- SuctionNames
  MaxChanges = 3
  MaxQueued = 2
  Absent = Absent
  Floors <- TwoFloors
  Grids <- GrowingGrids
  Outlines <- TwoOutlines
  Pictures <- TwoPictures
  Zones <- ZonesOrNot
  Res = 5
  LenMax = 1
  ExtMax = 3
  MinMatch = 3
  MaxCuts = 1
CHECK_DEADLOCK FALSE
SPECIFICATION Spec
INVARIANT OrderIsFree
INVARIANT RobotIsShown
INVARIANT MapIsDecoded
INVARIANT PointsMapBack
