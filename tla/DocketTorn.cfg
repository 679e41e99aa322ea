SPECIFICATION ClockSpec
CONSTANTS
    Quests = {q1}
    Rooms = {r1, r2}
    Items = {1}
    NoRoom = noroom
    NoQuest = noquest
    MaxClaims = 2
    Sweepers = {s1}
    Poster = r1
    MaxTorn = 1
PROPERTY SweepConverges
CHECK_DEADLOCK FALSE
