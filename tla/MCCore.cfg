CONSTANTS
  None = None
  r1 = r1
  r2 = r2
  pose1 = pose1
  pose2 = pose2
  pose3 = pose3
  px1 = px1
  px2 = px2
  px3 = px3
  gridA = gridA
  gridB = gridB
  outlineA = outlineA
  Concerns = {"dock", "rooms", "targets", "maps", "frames"}
  Reports <- AllReports
  InitialReports <- AllInitial
  BizMessages <- AllBiz
  StoredStates <- AllStores
  RoomIds = {r1, r2}
  MapIds = {1, 2}
  MapNames = {"", "Home", "Attic"}
  Pixels = {px1, px2, px3}
  PixelOf <- PosePixels
  TrailStep <- Steps
  Scenes = {1, 2}
  NotifyDesktop = TRUE
  Debounce = 2
  BriefDock = 2
  RenderGap = 1
  MaxTrail = 1
  MaxFrames = 3
SPECIFICATION MCFairSpec
INVARIANT NotificationMatchesError
INVARIANT RoomsAnnounced
INVARIANT ExclusiveTargets
INVARIANT ActiveMapKnown
PROPERTY ImplementsDebounce
PROPERTY DockStatusIsShown
PROPERTY RoomsGetAnnounced
PROPERTY FrameIsDrawn
