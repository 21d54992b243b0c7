SPECIFICATION FairSpec
CONSTANTS
    w1 = w1
    w2 = w2
    w3 = w3
    r1 = r1
    r2 = r2
    NoReply = NoReply
    Old = Old
    Corrupt = Corrupt
    Writer <- MCWriter
    Reader <- MCReader
INVARIANTS
    VectorsExpire
PROPERTIES
    FirstReplyWins
    ReturnsComplete
    OrphansHealed
CHECK_DEADLOCK FALSE
