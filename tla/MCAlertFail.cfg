SPECIFICATION Spec
CONSTANTS
    Watchers = {w1}
    Ringers = {r1, r2}
    None = None
    Cmds = {"on", "short", "pname", "invalid"}
    MaxCmds = 2
    RegistryMayFail = TRUE
    ReaderMayFail = TRUE
SYMMETRY Symmetry
CHECK_DEADLOCK FALSE
INVARIANTS ExitIsComplete
