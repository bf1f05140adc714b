SPECIFICATION Spec
CONSTANTS
    None = None
    Workspace = Workspace
    a1 = a1
    a2 = a2
    Turns <- Turns2
    Written = {"starting"}
    Agents <- Agents2
    Watchers = {w1}
    BroadcastCap = 2
    StreamCap = 1
INVARIANTS TypeOK Converged
PROPERTIES Answered EndsWithAgent
CHECK_DEADLOCK FALSE
