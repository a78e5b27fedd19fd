SPECIFICATION FairWebhookSpec
CONSTANTS
    None = None
    w1 = w1
    w2 = w2
    t1 = t1
    Requests = {r1, r2}
    Orders = {w1, w2}
    Triggers = {t1}
    MaxDeliveries = 2
    Scopes <- MCScopes
    Enabled = TRUE
    Configured = FALSE
INVARIANTS
    PendingExplained
PROPERTIES
    KeepsLedger
    Settles
CHECK_DEADLOCK FALSE
