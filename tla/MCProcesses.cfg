SPECIFICATION Spec
CONSTANTS
    MAX = 3
    PIDMAX = 4
    SLICE = 1
    SLEEPMAX = 1
    KTMAX = 1
    Calls = {"spawn", "kill", "wait", "wait_ctrl_c", "read", "console_mode", "console_foreground", "sleep"}
    Typing = TRUE
INVARIANTS QueueExact KilledOnlyEnds ConsoleAgrees ShellIsInits NoLostExit HoldersHaveRoom
PROPERTIES CtrlCReaches NoOvertaking
