CONSTANTS
  None = None
  r1 = r1
  r2 = r2
  pose1 = pose1
  pose2 = pose2
  pose3 = pose3
  px1 = px1
  px2 = px2
  px3 = px3
  gridA = gridA
  gridB = gridB
  outlineA = outlineA
  Concerns = {"session", "render"}
  Reports <- AllReports
  InitialReports <- AllInitial
  BizMessages <- AllBiz
  StoredStates <- AllStores
  RoomIds = {}
  MapIds = {1, 2}
  MapNames = {"", "Home", "Attic"}
  Pixels = {px1, px2, px3}
  PixelOf <- PosePixels
  TrailStep <- Steps
  Scenes = {1, 2}
  NotifyDesktop = TRUE
  Debounce = 1
  BriefDock = 2
  RenderGap = 1
  MaxTrail = 3
  MaxFrames = 1
SPECIFICATION MCSpec
INVARIANT DockVisitIsOver
INVARIANT TrailIsContiguous
INVARIANT ImageIsCurrent
VIEW PictureView
