SPECIFICATION WinFairSpec
CONSTANTS
    Watchers = {w1}
    Ringers = {r1}
    None = None
    Cmds = {"on", "off", "exit"}
    MaxCmds = 1
    RegistryMayFail = FALSE
    ReaderMayFail = FALSE
    Room = 2
CHECK_DEADLOCK FALSE
PROPERTIES CallsAnswered StatusShown
