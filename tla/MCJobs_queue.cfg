SPECIFICATION Spec
CONSTANTS
    r1 = r1
    r2 = r2
    w1 = w1
    w2 = w2
    Tenants = {tenant}
    Requests = {r1, r2}
    Workers = {w1}
    MaxChecks = 3
    MaxCodes = 2
    MaxPrompts = 2
    MaxLinks = 1
    MaxCrashes = 0
    MaxClicks = 4
CHECK_DEADLOCK FALSE
INVARIANTS
    TypeOK
    ActiveAreBounded
    CodesAreUsedOnce
SYMMETRY Threads
