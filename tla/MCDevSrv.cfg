SPECIFICATION FairSpec
CONSTANTS
    Clients = {c1, c2}
    Slots = 1
    MaxReqs = 2
    Intr = Intr
    File = File
    Nil = Nil
CHECK_DEADLOCK FALSE
INVARIANTS RightAnswer CancelNeverBlocks FreedInTime LastWord
PROPERTIES RequestEnds
