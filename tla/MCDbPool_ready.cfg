SPECIFICATION FairSpec
CONSTANTS
    Task = {t1, t2, t3}
    Kind = {"ready"}
    Size = 2
    PoolAtStart = TRUE
    MaxPools = 1
    MaxRequests = 4
    MaxLosses = 0
CHECK_DEADLOCK FALSE
PROPERTIES
    RequestsAnswered
