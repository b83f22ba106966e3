SPECIFICATION FairSpec
CONSTANTS
    Dashboards = {"web"}
    WorkerHosts = {"worker"}
    Tenants = {"t1"}
    Messages = {"m1"}
    TenantOf <- MCTenantOf
    CheckTimes = {0}
    DigestTime = 1
    LastHour = 1
    LastDay = 2
    IdleRounds = 1
    MaxFaults = 1
    Observed = {"web"}
CHECK_DEADLOCK FALSE
INVARIANTS
    TypeOK
    OncePerSlot
    NothingIsStranded
PROPERTIES
    QueuedIsSent
    SlotIsCovered
