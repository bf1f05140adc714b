SPECIFICATION FairSpec
CONSTANTS
    None = None
    Agents = {a1}
    Workspaces = {w1}
    Callers = {c1, c2}
    Ports = {1, 2}
    Ops = {"spawn", "mcp_spawn", "stop", "mcp_stop", "restart", "mcp_restart", "destroy"}
    Prompts = {TRUE, FALSE}
    MaxExits = 0
PROPERTIES StopHonoured CrashNoticed SpawnResolves DestroyStopsAgents
CHECK_DEADLOCK FALSE
