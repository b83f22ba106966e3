SPECIFICATION Spec
CONSTANTS
    Playbook <- FullPlaybook
    Agents = {"worker"}
    Senders = {"dashboard"}
    ModelDeclines = FALSE
    Dates <- Undated
    MaxMessages = 3
    Clicks = 0
    StageClicks = 0
    StagesSet = {}
    Replies = 0
    Failures = 0
    Surprises = 0
CHECK_DEADLOCK FALSE
INVARIANTS
    NoStepSkipped
