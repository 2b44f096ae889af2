SPECIFICATION FairSpec
CONSTANTS
    Watchers = {w1}
    Ringers = {r1}
    None = None
    Cmds = {"off"}
    MaxCmds = 1
    RegistryMayFail = TRUE
    ReaderMayFail = FALSE
CHECK_DEADLOCK FALSE
PROPERTIES DieExits
