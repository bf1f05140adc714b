SPECIFICATION FairSpec
CONSTANTS
    None = None
    Sync = Sync
    Workspaces = {w1}
    Callers = {c1, c2}
    MaxTasks = 4
    MaxRequests = 3
INVARIANT EntryHasTask
PROPERTIES LostToOverlap StopHonoured Converges
