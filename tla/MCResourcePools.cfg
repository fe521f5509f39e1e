SPECIFICATION Spec
CONSTANTS
    u1 = u1
    u2 = u2
    c1 = c1
    c2 = c2
    User = {u1, u2}
    Container = {c1, c2}
    PoolName = {p1}
    owner <- Owners
    Slot = {s1, s2}
    Attempts = 3
    MaxCommands = 5
    MaxFailures = 1
CHECK_DEADLOCK FALSE
INVARIANT ConflictMeansChange
