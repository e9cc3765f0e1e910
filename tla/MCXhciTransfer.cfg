SPECIFICATION Spec
CONSTANTS
    SLOTS = 2
    RING = 3
    MEMORY = 3
    Budgets <- OneAbort
    REQUESTS = 1
    ATTACH_TRIES = 2
INVARIANT OneTransferAtATime
CHECK_DEADLOCK FALSE
