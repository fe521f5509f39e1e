SPECIFICATION Spec
CONSTANTS
    User = {u1, u2}
    Org = {o1}
    Project = {}
    NoProject = NoProject
    CustomRole = {}
    NoRole = NoRole
    RolePerms = {}
    Slot = {s1, s2}
    ReuseOrgIds = TRUE
    MaxGrants = 3
    MaxFailures = 1
    MaxRestarts = 1
SYMMETRY Symmetry
CHECK_DEADLOCK FALSE
INVARIANTS
    TypeOK
    NoDanglingMembership
    NoSilentOrgLoss
PROPERTIES
    FailedDeleteKeepsMemory
