SPECIFICATION FairSpec
CONSTANTS
    Clients = {c1, c2, c3}
    Fids = {f1, f2}
    Nil = Nil
    Slots = 1
    Grow = 1
    EarlyDeath = FALSE
INVARIANTS TableAgrees MindersMatchMembers
PROPERTIES ConnectAnswered LeaverForgotten
