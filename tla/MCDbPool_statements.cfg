SPECIFICATION FairSpec
CONSTANTS
    Task = {t1, t2, t3}
    Kind = {"statement"}
    Size = 2
    PoolAtStart = FALSE
    MaxPools = 3
    MaxRequests = 5
    MaxLosses = 1
CHECK_DEADLOCK FALSE
INVARIANTS
    TypeOK
    NoExtraConnection
    ConnectionsReturned
PROPERTIES
    RequestsAnswered
