SPECIFICATION Spec
CONSTANTS
    Keys = {k1}
    Sessions = {s1, s2, s3}
    NoKey = none
    Home = s1
    Renewed = s2
    Stranger = s3
    StormMax = 1
    AttemptLimit = 2
PROPERTIES ProvenIsNotPutDown
CHECK_DEADLOCK FALSE
