SPECIFICATION WorldsSpec
CONSTANTS
  A = A
  B = B
  a = a
  b1 = b1
  b2 = b2
  m1 = m1
  m2 = m2
  m3 = m3
  None = None
  Room = {A, B}
  Allowed = {A, B}
  Caller = {a, b1, b2}
  RoomOf <- MCRoomOf
  SessionOf <- MCShared
  Message = {m1, m2, m3}
  Author <- MCAuthor
  Addressed <- MCAddressed
  Continues <- MCContinues
  Knock = {1, 2}
  Offered <- AnyPolicy
  Named = {1}
  MaxTurns = 2
  DefaultTurns = 2
  OmittedTurns = 1
  TurnWindow = 2
  MinLifetime = 1
  Lease = 2
  MaxTime = 4
INVARIANTS ChainIsSound
PROPERTIES TurnsEnd RevocationStopsWakes StartsInTime KeepsTurns
CHECK_DEADLOCK FALSE
