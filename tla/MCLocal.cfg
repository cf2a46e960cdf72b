CONSTANTS
  None = None
  entry = entry
  loop = loop
  s1 = s1
  s2 = s2
  d1 = d1
  d2 = d2
  d3 = d3
  Owner = entry
  Listener = loop
  Senders = {s1, s2}
  Cancellable = {s1, s2}
  Devices = {d1, d2, d3}
CHECK_DEADLOCK FALSE
SPECIFICATION FairSpec
INVARIANT SerialUnlessAbandoned
INVARIANT NoSocketIsLeaked
PROPERTY ImplementsDeviceAccess
PROPERTY EveryoneIsServed
