SPECIFICATION Spec
CONSTANTS
    Absent = Absent
    Workspaces = {w1, w2}
    Callers = {c1, c2}
    Tags = {10, 11}
    AcpPorts = {1}
    BezalelPorts = {1}
PROPERTY OnlyDestroyRemoves
CHECK_DEADLOCK FALSE
