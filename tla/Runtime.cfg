SPECIFICATION PartsSpec
CONSTANTS
    p1 = p1
    a1 = a1
    Panels = {p1}
    Agents = {a1}
    None = None
    Mixed = Mixed
    ReceiptLimit = 1
    Backlog = 1
    MaxContents = 4
    MaxMishaps = 2
    Materials = {m1, m2}
    Replies = {Silence, r1}
    Silence = Silence
    Nil = Nil
    Boats = {b1, b2}
    ReplayLimit = 3
    MaxTurns = 3
    MaxLapses = 2
    Requests = {1, 2, 3}
    Definitive = {2}
    MaxPending = 2
    MaxQueued = 2
    Sessions = {1, 2}
    Says = {1, 2}
    RingSize = 3
    MaxDrafts = 1
    MaxMessages = 5
    MaxUpsets = 1
    MemoryPaths = {f1, f2}
    BoatPaths = {f3}
    Writers = {w1, w2}
    Nothing = Nothing
    MaxIds = 3
    MaxClock = 1
    ShelfLimit = 1
    Commands = {c1, c2}
    Keeps = {1, 2}
    Lineages = 2
    Resting = Resting
    MaxBackups = 3
INVARIANTS VersionNamesContent AppliedOnce RowFollowsMemory WalkIsWhole
    ThreadsAreAcyclic KeepsNewest
    ToldTheTruth HonestChildIsBelieved AnswersAreTheirOwn
PROPERTIES SubscribersCatchUp
CHECK_DEADLOCK FALSE
