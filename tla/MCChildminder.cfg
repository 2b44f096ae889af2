SPECIFICATION FairSpec
CONSTANTS
    Buttons = {0, 1}
    MaxKeys = 1
    MaxCtls = 2
    MaxPtrs = 2
INVARIANTS InOrder NoClickLost NewestPointerKept ImageOwed
PROPERTIES ManagerNotClogged RequestCompletes Delivered
