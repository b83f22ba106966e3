SPECIFICATION FairSpec
CONSTANTS
    r1 = r1
    r2 = r2
    w1 = w1
    w2 = w2
    Tenants = {tenant}
    Requests = {r1}
    Workers = {w1, w2}
    MaxChecks = 1
    MaxCodes = 0
    MaxPrompts = 1
    MaxLinks = 1
    MaxCrashes = 1
    MaxClicks = 2
CHECK_DEADLOCK FALSE
INVARIANTS
    RunsAreExclusive
    VerifyingIsAnswered
PROPERTIES
    CalledOffInTime
    JobLifeSpec
    StrandedJobsEnd
    VerifyingEnds
