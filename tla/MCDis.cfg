CONSTANTS
    p1 = p1
    p2 = p2
    p3 = p3
    sync = sync
    slot = slot
    v1 = v1
    v2 = v2
    Nil = Nil
    Progs = {p1, p2, p3}
    First = p1
    Chans = {sync, slot}
    Vals = {v1, v2}
    Alts <- MCAlts
    Slots <- MCSlots
    Room = 2
    MaxMsgs = 2
SYMMETRY Symmetric
SPECIFICATION Spec
INVARIANTS Consistent NoMissedRendezvous
PROPERTIES KillgrpComplete RendezvousSpec
CHECK_DEADLOCK FALSE
