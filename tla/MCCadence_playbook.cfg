SPECIFICATION Spec
SYMMETRY Alike
CONSTANTS
    Playbook <- ShortPlaybook
    Agents = {worker, web}
    Senders = {host1, host2}
    ModelDeclines = FALSE
    Dates <- Undated
    MaxMessages = 2
    Clicks = 1
    StageClicks = 1
    StagesSet = {"lost"}
    Replies = 0
    Failures = 1
    Surprises = 1
CHECK_DEADLOCK FALSE
INVARIANTS
    TypeOK
    AgentDraftsOnce
