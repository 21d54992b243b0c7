SPECIFICATION FairSpec
CONSTANTS
    r1 = r1
    r2 = r2
    r3 = r3
    g1 = g1
    g2 = g2
    k1 = k1
    k2 = k2
    k3 = k3
    p1 = p1
    p2 = p2
    NoRequest = NoRequest
    Request <- MCRequest
    Replica <- MCReplica
    Key <- MCKey
    Partition <- MCPartition
    PartitionOf <- MCPartitionOf
    RequestMixes <- MCRequestMixes
INVARIANTS
    OneCallPerFlight
    FollowersHaveLeader
    AnswersBelong
    CacheHoldsPrimaryAnswers
PROPERTIES
    EveryRequestEnds
    FirstWriterWins
CHECK_DEADLOCK FALSE
