SPECIFICATION Spec
CONSTANTS
    web = web
    worker = worker
    d1 = d1
    d2 = d2
    r1 = r1
    r2 = r2
    Hosts = {web}
    Drainers = {d1}
    Reclaimers = {r1}
    HostOf <- OneHost
    PlatformOn = TRUE
    AutoArmed = FALSE
    Items = {guest}
    Bodies = {hello, hi}
    Delays = {0}
    MaxRows = 2
    MaxRuns = 2
    MaxRetries = 1
    MaxTime = 1
    MaxSendAttempts = 2
    SendTimeout = 1
    ReclaimAge = 1
    OutcomesMax = 1
CHECK_DEADLOCK FALSE
INVARIANTS
    OneInFlightPerGuest
    SentWordsDistinct
