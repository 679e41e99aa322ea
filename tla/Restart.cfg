CONSTANTS
    Keys = {k1, k2}
    Sessions = {s1, s2, s3}
    NoKey = none
    Home = s1
    Renewed = s2
    Stranger = s3
    StormMax = 1
    AttemptLimit = 2
SPECIFICATION MCSpec
CHECK_DEADLOCK FALSE
INVARIANTS
    StormBound
PROPERTIES
    ClaimIsExclusive
    KeepsPromise
    VerifiedIsSupervised
    ArmedExitEnds
