SPECIFICATION Spec
CONSTANTS
    web = web
    worker = worker
    d1 = d1
    d2 = d2
    r1 = r1
    r2 = r2
    Hosts = {web, worker}
    Drainers = {d1, d2}
    Reclaimers = {r1}
    HostOf <- TwoHosts
    PlatformOn = TRUE
    AutoArmed = TRUE
    Items = {guest}
    Bodies = {hello}
    Delays = {0}
    MaxRows = 1
    MaxRuns = 2
    MaxRetries = 1
    MaxTime = 2
    MaxSendAttempts = 1
    SendTimeout = 1
    ReclaimAge = 1
    OutcomesMax = 1
CHECK_DEADLOCK FALSE
INVARIANTS
    TypeOK
    ClaimIsExclusive
    ClaimInvariant
    VerdictIsOwn
    ResendsBounded
PROPERTIES
    LifecycleSpec
