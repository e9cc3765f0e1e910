SPECIFICATION UsbSpec
CONSTANTS
    SLOTS = 2
    RING = 3
    MEMORY = 3
    Budgets <- Mixed
    REQUESTS = 1
    ATTACH_TRIES = 2
    LINK_INDEX = 3
    QUEUED = 2
    TRBS = 3
    Body = {a, b}
INVARIANTS AnswersMatch RulesKept DmaKept StaleSlotShows RingsAgree KeysMatch
CHECK_DEADLOCK FALSE
