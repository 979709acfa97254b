SPECIFICATION Spec
CONSTANTS
    e1 = e1
    e2 = e2
    h1 = h1
    h2 = h2
    f1 = f1
    j1 = j1
    c1 = c1
    c2 = c2
    Execs = {e1, e2}
    Fps = {f1}
    Handlers = {h1, h2}
    Jobs = {j1}
    JobOf <- OneJob
    Endpoints = {"verify"}
    Calls = {c1, c2}
    CallFor <- FetchAgain
    ScopeOf <- InMonitor
    FailPolicy <- FirstFailsOpen
    MaxRetries = 1
    Faults = {"crash", "apiCrash", "network", "database"}
SYMMETRY LegacySymmetry
INVARIANTS LegacyTypeOK MadeOnce ReplaysAResponse
CHECK_DEADLOCK FALSE
