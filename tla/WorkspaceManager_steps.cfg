SPECIFICATION Spec
CONSTANTS
    None = None
    GoOn = FALSE
    Workspaces = {w1, w2}
    Projects = {p1}
    Callers = {c1, c2}
SYMMETRY Symmetry
INVARIANTS Usable
CHECK_DEADLOCK FALSE
