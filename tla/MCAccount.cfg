CONSTANTS
  None = None
  r1 = r1
  r2 = r2
  h1 = h1
  Robots = {r1, r2}
  Accounts <- AccountsOfTwo
  Hosts = {h1}
  MaxRefusals = 1
  MaxForms = 2
  MaxReloads = 4
  CrowdedReloads = 2
CHECK_DEADLOCK FALSE
SPECIFICATION MCSpec
INVARIANT OnePerRobot
INVARIANT NoneIsLost
INVARIANT CredentialsFit
PROPERTY OthersKept
PROPERTY HostsSurvive
