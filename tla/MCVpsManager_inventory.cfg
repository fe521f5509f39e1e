SPECIFICATION FairSpec
CONSTANTS
    Container = {c1, c2, c3}
    Provisioned = {c1}
    Task = {t1, t2}
    MaxRequests = 4
    MaxFailures = 1
    MaxRestarts = 1
CHECK_DEADLOCK FALSE
INVARIANTS
    TypeOK
    EachVpsOnce
    FallbackCurrent
PROPERTIES
    NoVpsForgotten
    ResizeKeepsRunning
    RequestsEnd
