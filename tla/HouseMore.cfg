SPECIFICATION HouseSpec
CONSTANTS
    Quests = {q1, q2}
    ClockQuest = q1
    Rooms = {r1, r2}
    Items = {1, 2}
    NoRoom = noroom
    NoQuest = noquest
    MaxClaims = 2
    Sweepers = {s1, s2}
    Poster = r1
    MaxTorn = 1
    Chambers = {"A", "B"}
    Ears = {y, z}
    y = y
    z = z
    Home <- MCHome
    MaxPosts = 2
    PageLimit = 1
    Releases = {1, 2, 3}
    NoRelease = 0
    Api <- MCApi
    Keep = 2
    MaxCommands = 4
    MaxMishaps = 2
    Threads = {t1, t2}
    Capacity = 1
    BatchMax = 2
    MaxObservations = 3
    GigaCandidates = {c1}
    Principals = {p1, p2}
    Titles = {u1, u2}
    KeySets = {{}}
    Writer = writer
    MaxReviews = 3
    MaxStamps = 2
    MaxRecords = 1
    Lessons = {l1, l2}
    ProjectLessons = {l2}
    CoolingLessons = {l2}
    Patterns = {"a"}
    Editors = {i1, i2}
    Matches = {m1}
    MaxEdits = 3
    MaxFires = 1
    Plan <- MCPlan
    MaxTroubles = 2
INVARIANTS RecurrenceLives HouseTypeOK
PROPERTIES InboxIsAnnounced
CHECK_DEADLOCK FALSE
