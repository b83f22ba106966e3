SPECIFICATION FairSpec
CONSTANTS
    Mails <- TheMails
    Requests = {r1, r2}
    MaxRows = 1
    MaxUnreviewed = 1
    MaxTime = 2
    MaxMails = 2
    MaxRetries = 1
    MaxClosed = 1
    MaxFaults = 1
CHECK_DEADLOCK FALSE
INVARIANTS
    TypeOK
    RecoveredIsKept
    AnsweredOnce
PROPERTIES
    UnreadIsKept
    RejectLifeSpec
    StoredReachesBoard
