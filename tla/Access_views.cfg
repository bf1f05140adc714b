SPECIFICATION Spec
CONSTANTS
    None = None
    Reports = {"ready"}
    AdminId = localhost
    p1 = p1
    p2 = p2
    w1 = w1
    w2 = w2
    Projects <- Projects2
    Workspaces <- Workspaces2
    ProjectOf <- ProjectOf2
    TokenIds = {t1, t2}
    Agents = {a1, a2}
    Names = {n1}
    MaxTime = 1
    Scopes <- Scopes2
    Permissions = {0, 2}
    Expiries = {0}
SYMMETRY Symmetry
INVARIANTS NoneWidened SessionsAreTrees AgentsHoldTheirTokens ViewsAgree SessionsSeeTheirOwn
