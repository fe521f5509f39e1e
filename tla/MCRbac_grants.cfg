SPECIFICATION Spec
CONSTANTS
    User = {u1}
    Org = {o1}
    Project = {p1}
    NoProject = NoProject
    CustomRole = {c1}
    NoRole = NoRole
    RolePerms <- OneRolePerms
    Slot = {s1, s2}
    ReuseOrgIds = FALSE
    MaxGrants = 2
    MaxFailures = 1
    MaxRestarts = 0
SYMMETRY Symmetry
CHECK_DEADLOCK FALSE
INVARIANTS
    BuiltinsPresent
    NoSilentRoleLoss
    NoSilentGrantLoss
