SPECIFICATION Spec
CONSTANTS
    SLOTS = 2
    RING = 3
    MEMORY = 3
    Budgets <- Replugged
    REQUESTS = 1
    ATTACH_TRIES = 2
INVARIANT ChangeIsNews
CHECK_DEADLOCK FALSE
