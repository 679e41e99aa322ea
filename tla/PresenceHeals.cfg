SPECIFICATION PresenceSpec
CONSTANTS
    Materials = {m1, m2}
    Replies = {Silence, r1}
    Silence = Silence
    Nil = Nil
    Boats = {b1, b2}
    ReplayLimit = 3
    MaxTurns = 3
    MaxLapses = 2
INVARIANT NextTurnHeals
CHECK_DEADLOCK FALSE
