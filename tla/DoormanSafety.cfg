SPECIFICATION DoormanSpec
CONSTANTS
  d1 = d1
  d2 = d2
  k1 = k1
  k2 = k2
  None = None
  Holder = {d1}
  Knock = {k1, k2}
  MaxClaims = 2
  MaxFails = 1
  MaxNotes = 1
INVARIANTS DoormanTypeOK
PROPERTIES NeverReplaced
CHECK_DEADLOCK FALSE
SYMMETRY Interchangeable
VIEW Forgetful
