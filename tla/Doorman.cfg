SPECIFICATION WorldsSpec
CONSTANTS
  d1 = d1
  d2 = d2
  k1 = k1
  k2 = k2
  None = None
  Holder = {d1, d2}
  Knock = {k1}
  MaxClaims = 2
  MaxFails = 2
  MaxNotes = 2
PROPERTIES DoormanReleases WakesTheHolder
CHECK_DEADLOCK FALSE
