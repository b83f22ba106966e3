SPECIFICATION FairSpec
CONSTANTS
    Playbook <- ShortPlaybook
    Agents = {"worker"}
    Senders = {"dashboard"}
    ModelDeclines = TRUE
    Dates <- EndKnown
    MaxMessages = 1
    Clicks = 1
    StageClicks = 0
    StagesSet = {}
    Replies = 1
    Failures = 1
    Surprises = 2
CHECK_DEADLOCK FALSE
INVARIANTS
    FollowupsNeedContact
    StayHasItsPlaybook
PROPERTIES
    StaysEnd
    OpenDealsEnd
