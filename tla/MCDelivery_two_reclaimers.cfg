SPECIFICATION Spec
CONSTANTS
    web = web
    worker = worker
    d1 = d1
    d2 = d2
    r1 = r1
    r2 = r2
    Hosts = {web, worker}
    Drainers = {d1, d2}
    Reclaimers = {r1, r2}
    HostOf <- TwoHosts
    PlatformOn = TRUE
    AutoArmed = FALSE
    Items = {guest}
    Bodies = {hello}
    Delays = {0}
    MaxRows = 1
    MaxRuns = 2
    MaxRetries = 0
    MaxTime = 2
    MaxSendAttempts = 2
    SendTimeout = 1
    ReclaimAge = 1
    OutcomesMax = 1
CHECK_DEADLOCK FALSE
INVARIANTS
    ClaimIsExclusive
