CONSTANTS
  None = None
  dust = dust
  dry = dry
  dnd = dnd
  begin = begin
  mop = mop
  Groups <- AllGroups
  DockGroup <- Dock
  TimeFields <- Times
  Platform <- Platforms
  AlwaysAvailable <- Open
  MaxSets = 3
  MaxChanges = 1
  MaxFaults = 1
CHECK_DEADLOCK FALSE
SPECIFICATION MCSpec
INVARIANT ViewIsTrue
INVARIANT ChoicesLast
PROPERTY OthersUntouched
