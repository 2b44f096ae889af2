SPECIFICATION Spec
CONSTANTS
    Watchers = {w1, w2}
    Ringers = {r1, r2}
    None = None
    Cmds = {"exit", "on", "off"}
    MaxCmds = 2
    RegistryMayFail = FALSE
    ReaderMayFail = FALSE
SYMMETRY Symmetry
INVARIANTS RegistryFirst OneWatcher BellMatchesStatus ExitIsComplete
