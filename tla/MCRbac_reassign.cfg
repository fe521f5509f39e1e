SPECIFICATION Spec
CONSTANTS
    User = {u1, u2}
    Org = {o1}
    Project = {}
    NoProject = NoProject
    CustomRole = {}
    NoRole = NoRole
    RolePerms = {}
    Slot = {s1}
    ReuseOrgIds = FALSE
    MaxGrants = 3
    MaxFailures = 0
    MaxRestarts = 0
SYMMETRY Symmetry
CHECK_DEADLOCK FALSE
INVARIANTS
    GrantsSurviveRestart
