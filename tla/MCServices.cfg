SPECIFICATION ServicesSpec
CONSTANTS
    None = None
    u1 = u1
    u2 = u2
    User = {u1, u2}
    Slot = {1, 2}
    Vars = {}
    Java = {j}
    Limit = {l}
    Kind <- Kinds
    AuditTable <- Tables
    Admin = {u1}
    Window <- Windows
    PolicyBody <- PolicyBodies
    SignalsBody <- SignalsBodies
    Environment = {"production"}
    ConfigsOf <- AlertConfigs
    Forwarding = TRUE
    DemoCustomers = {"acme"}
    DemoApps = {"monitor"}
    AppsOwner = u1
    Rule <- Rules
    Bucket <- Buckets
    Session = {"a"}
    OutputCap = 2
    ScreenCap = 1
    Container = {1, 2}
    Cooldown = 2
    Rotas <- SmallRotas
    Person = {"dave"}
    Workload = {1, 2}
    GHOST_MINUTES = 2
    Days = 2
    Day = 2
    Requests <- RequestsEach
    Time <- TimeEach
    SetupFailures = 2
    MaxFailures = 1
    MaxRestarts = 1
    MaxFetches = 2
    MaxMounts = 1
    MaxSockets = 3
    MaxCommands = 2
    MaxTasks = 3
    MaxJobs = 6
    MaxRuns = 2
    MaxLaps = 2
    MaxMessages = 2
    MaxPresses = 4
    MaxLoads = 3
    MaxWrites = 2
    MaxSubjects = 2
    MaxIncidents = 2
    MaxEvents = 4
CHECK_DEADLOCK FALSE
INVARIANTS
    ServicesTypeOK
    LastingFreezeHolds
    MadeOnce
    StatusTold
    RecordsAgree
    FollowersCatchUp
    ScreensAgree
    BotKeepsTrack
    CommandsAnswered
    
    
PROPERTIES
    HistoryIsALog
    LostOnlyToStaleReads
