SPECIFICATION Spec
CONSTANTS
    e1 = e1
    e2 = e2
    h1 = h1
    h2 = h2
    f1 = f1
    j1 = j1
    c1 = c1
    c2 = c2
    Execs = {e1, e2}
    Fps = {f1}
    Handlers = {h1, h2}
    Jobs = {j1}
    JobOf <- OneJob
    Endpoints = {"begin", "commit", "unknown", "failed"}
    Calls = {c1, c2}
    CallFor <- TwoExecutions
    Options <- TimedAsUnknown
    FailPolicy <- FailsClosed
    MaxRetries = 1
    Faults = {"network", "crash", "apiCrash", "database"}
SYMMETRY SDKSymmetry
INVARIANTS SDKTypeOK RunsExclusively CommittedNeverRepeats CachedWasDone
PROPERTIES LifecycleIsForward
CHECK_DEADLOCK FALSE
