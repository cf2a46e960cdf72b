CONSTANTS
  None = None
  vac = vac
  cmd = cmd
  c1 = c1
  c2 = c2
  c3 = c3
  c4 = c4
  Pollers = {vac}
  Senders = {cmd}
  Clients = {c1, c2, c3, c4}
  Requests = 2
  Base = 1
  Cap = 10
  Threshold = 5
  MaxExpiries = 2
  MaxOutages = 1
SPECIFICATION FairSpec
INVARIANT StalenessIsBounded
INVARIANT PublishedOnce
PROPERTY CloudRecovers
