SPECIFICATION WorldsSpec
CONSTANTS
  e0 = e0
  e1 = e1
  e2 = e2
  e3 = e3
  s1 = s1
  w1 = w1
  w2 = w2
  None = None
  Event = {e0, e1, e2, e3}
  Boat = {e0, e2, e3, s1}
  Stray = {s1}
  Malformed = {e3}
  Mismatched = {e2}
  Copy = {1, 2, 3}
  Worker = {w1, w2}
  MaxPublishAttempts = 2
  MaxDeliver = 2
  MaxFaults = 3
  MaxAged = 1
INVARIANTS PublishedIsStored LostOnlyAfterFaults ReceiptsAreSound
PROPERTIES KeepsLedger
CHECK_DEADLOCK FALSE
