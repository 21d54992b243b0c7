SPECIFICATION MCSpec
CONSTANTS
    s1 = s1
    s2 = s2
    s3 = s3
    s4 = s4
    Stream <- MCStream
    maxConcurrent = 2
    Settings <- MCSettings
    p1 = p1
    p2 = p2
    NoBucket = NoBucket
    Process <- MCProcess
    Skew <- MCSkew
    MaxSkew = 1
    MaxDelay = 1
    Rate = 2
    Burst = 4
    Window = 4
    Ttl = 6
    Steps <- MCSteps
    MaxTime = 11
INVARIANTS
    StreamsBounded
    RefusalsJustified
    GrantsBounded
    RefusalsShort
PROPERTIES
    SlotsDrain
CHECK_DEADLOCK FALSE
