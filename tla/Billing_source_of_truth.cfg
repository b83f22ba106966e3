SPECIFICATION Spec
CONSTANTS
    Plans = {"starter", "pro"}
    InOrder = TRUE
    MaxSessions = 2
    MaxChanges = 1
    MaxPages = 1
    MaxRedeliveries = 0
CHECK_DEADLOCK FALSE
INVARIANTS
    WebhookDecides
