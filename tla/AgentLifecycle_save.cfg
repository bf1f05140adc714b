SPECIFICATION Spec
CONSTANTS
    None = None
    Agents = {a1, a2}
    Workspaces = {w1}
    Callers = {c1}
    Ports = {1}
    Ops = {"mcp_spawn", "mcp_stop", "create", "up", "down", "delete", "mcp_destroy", "mgr_destroy"}
    Prompts = {TRUE}
    MaxExits = 1
SYMMETRY Symmetry
INVARIANTS NoUnmanagedProcess StoppedIsDead
PROPERTY BroadcastOrder
CHECK_DEADLOCK FALSE
