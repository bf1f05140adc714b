SPECIFICATION Spec
CONSTANTS
    None = None
    Torn = Torn
    Blank = Blank
    Daemon = Daemon
    Workers = {w1, w2}
    Clis = {c1}
    Changes = {x1, x2}
    Inodes = {i1, i2, i3, i4, i5}
    Guarded = TRUE
    MaxCrashes = 1
SYMMETRY Symmetry
VIEW View
INVARIANTS LoadsComplete ModifyLosesNothing
PROPERTY ImplementsAtomicStore
