SPECIFICATION FairSpec
CONSTANTS
    e1 = e1
    e2 = e2
    h1 = h1
    h2 = h2
    f1 = f1
    j1 = j1
    c1 = c1
    c2 = c2
    Execs = {e1, e2}
    Fps = {f1}
    Handlers = {h1}
    Jobs = {j1}
    JobOf <- OneJob
    Endpoints = {"begin", "commit", "unknown", "failed"}
    Calls = {c1, c2}
    CallFor <- TwoExecutions
    Options <- TimedAsUnknown
    FailPolicy <- FailsOpen
    MaxRetries = 1
    Faults = {"network", "crash", "database"}
INVARIANTS CachedWasDone
PROPERTIES EffectSettles
CHECK_DEADLOCK FALSE
