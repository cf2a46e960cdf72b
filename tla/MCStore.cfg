CONSTANTS
  None = None
  Unread = Unread
  m1 = m1
  m2 = m2
  m3 = m3
  r1 = r1
  r2 = r2
  Maps = {m1, m2, m3}
  RoomLists = {r1}
  Images = TRUE
  MaxChanges = 4
  MaxRestarts = 2
CHECK_DEADLOCK FALSE
SPECIFICATION Spec
INVARIANT TypeOK
INVARIANT OnePartIsPersisted
PROPERTY StoredMapsSurvive
