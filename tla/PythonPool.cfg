SPECIFICATION FairPySpec
CONSTANTS
    e1 = e1
    h1 = h1
    f1 = f1
    f2 = f2
    j1 = j1
    c1 = c1
    c2 = c2
    c3 = c3
    Execs = {e1}
    Fps = {f1, f2}
    Handlers = {h1}
    Jobs = {j1}
    JobOf <- OneJob
    Endpoints = {"begin", "commit", "unknown", "failed"}
    Calls = {c1, c2, c3}
    CallFor <- Threads
    Options <- Defaults
    FailPolicy <- FailsOpen
    MaxRetries = 0
    Faults = {"network", "crash", "database", "apiCrash"}
    Workers = 1
    Inside <- Nested
    ItsThread = ItsThread
INVARIANTS PyTypeOK RunsExclusively LateIsOpen
PROPERTIES EveryCallIsBack
CHECK_DEADLOCK FALSE
