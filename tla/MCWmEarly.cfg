SPECIFICATION Spec
CONSTANTS
    Clients = {c1, c2}
    Fids = {f1, f2}
    Nil = Nil
    Slots = 16
    Grow = 4
    EarlyDeath = TRUE
INVARIANTS MainLoopSurvives
