SPECIFICATION Spec
CONSTANTS
    Clients = {c1, c2, c3}
    Interactive = {c1, c2, c3}
    Nil = Nil
SYMMETRY Symmetry
INVARIANTS TargetsAlive FocusToldRight ZorderIsList HeaderFirstFooterLast
