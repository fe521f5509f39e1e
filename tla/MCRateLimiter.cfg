SPECIFICATION Spec
CONSTANTS
    Capacity = 2
    Window = 2
    Key = {k1, k2, k3}
    Client = k1
    MaxKeys = 2
    MaxTime = 5
    MaxAdmissions = 3
SYMMETRY Symmetry
CHECK_DEADLOCK FALSE
INVARIANTS
    TypeOK
    WindowBound
PROPERTIES
    ResetTimeHonoured
    EvictsLeastRecent
    KeepsPromise
