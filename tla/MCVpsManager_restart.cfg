SPECIFICATION Spec
CONSTANTS
    Container = {c1, c2, c3}
    Provisioned = {c1}
    Task = {t1, t2}
    MaxRequests = 3
    MaxFailures = 2
    MaxRestarts = 1
CHECK_DEADLOCK FALSE
PROPERTIES
    InstancesSurviveRestart
