SPECIFICATION FairSpec
CONSTANTS
    MAX = 3
    PIDMAX = 3
    SLICE = 1
    SLEEPMAX = 1
    KTMAX = 1
    Calls = {"spawn", "wait_ctrl_c", "read", "console_mode", "sleep"}
    Typing = TRUE
PROPERTIES ReadyRuns KilledEnds WaitsEnd ShellReplaced
