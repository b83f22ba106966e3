SPECIFICATION Spec
CONSTANTS
    b1 = b1
    b2 = b2
    r1 = r1
    r2 = r2
    d1 = d1
    d2 = d2
    Items = {i1}
    Bodies = {b1, b2}
    Requests = {r1, r2}
    Drainers = {d1, d2}
    Null = null
    MaxSendAttempts = 1
    ReclaimAge = 0
    MaxRows = 2
    MaxTime = 1
    MaxClaims = 1
CHECK_DEADLOCK FALSE
INVARIANTS
    InboxAgrees
    ListsMissOverlooked
    CaptionIsHonest
    OfferIsAccepted
    RefusalIsTrue
PROPERTIES
    CardNamesNext
SYMMETRY Alike
