CONSTANTS
  None = None
  dust = dust
  dry = dry
  dnd = dnd
  begin = begin
  mop = mop
  Groups <- AllGroups
  DockGroup <- Dock
  TimeFields <- Times
  Platform <- Platforms
  AlwaysAvailable <- Open
  MaxSets = 2
  MaxChanges = 1
  MaxFaults = 0
CHECK_DEADLOCK FALSE
SPECIFICATION MCSpec
INVARIANT WrongOnlyAfterFailure
