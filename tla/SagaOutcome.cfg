SPECIFICATION SagaSpec
CONSTANTS
    e1 = e1
    e2 = e2
    h1 = h1
    h2 = h2
    f1 = f1
    f2 = f2
    j1 = j1
    c1 = c1
    c2 = c2
    s1 = s1
    s2 = s2
    Execs = {e1}
    Fps = {f1, f2}
    Handlers = {h1}
    Jobs = {j1}
    JobOf <- OneJob
    Endpoints = {"begin", "commit", "unknown", "failed"}
    Calls = {c1, c2}
    CallFor <- TwoSteps
    Options <- Untimed
    FailPolicy <- FailsClosed
    MaxRetries = 1
    Faults = {"network", "database", "apiCrash"}
    Slots = {s1, s2}
    Before <- Alone
    Locals = {TRUE, FALSE}
SYMMETRY SagaSymmetry
INVARIANTS SagaTypeOK OutcomeIsKept CompletedWasReversed ReversalsAreBounded
CHECK_DEADLOCK FALSE
