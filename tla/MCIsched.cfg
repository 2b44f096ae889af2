SPECIFICATION FairSpec
CONSTANTS
    Progs = {p1, p2}
    Callers = {p1}
    MaxVMs = 4
    Kprocs = {k1}
    Nil = Nil
INVARIANTS OneOwner NoPanic ProcessesKept ThreadsBounded
  
