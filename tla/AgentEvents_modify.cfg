SPECIFICATION EventSpec
CONSTANTS
    None = None
    Agents = {a1, a2}
    Workspaces = {w1}
    Callers = {c1, c2}
    Ports = {1, 2}
    Ops = {"spawn", "mcp_restart"}
    Prompts = {TRUE}
    MaxExits = 0
SYMMETRY Symmetry
INVARIANTS ReadyIsManaged PortsSharedOnlyByOverlap
PROPERTIES ImplementsReports
CHECK_DEADLOCK FALSE
