SPECIFICATION Spec
CONSTANTS
    User = {u1}
    Nobody = Nobody
    Container = {c1, c2}
    Slot = {s1, s2}
    Type = {daily, weekly}
    BACKUP_RETENTION <- KeepOne
    SERVER_LIMIT = 1
    MaxCommands = 5
    MaxFailures = 1
    MaxCrashes = 1
SYMMETRY Symmetry
CHECK_DEADLOCK FALSE
INVARIANTS
    TypeOK
    NewestBackupsKept
    ListedBackupsExist
    RetentionApplied
    LimitExceededAtMost
