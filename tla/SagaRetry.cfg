SPECIFICATION SagaSpec
CONSTANTS
    e1 = e1
    e2 = e2
    h1 = h1
    h2 = h2
    f1 = f1
    f2 = f2
    j1 = j1
    c1 = c1
    c2 = c2
    s1 = s1
    s2 = s2
    Execs = {e1, e2}
    Fps = {f1}
    Handlers = {h1}
    Jobs = {j1}
    JobOf <- OneJob
    Endpoints = {"begin", "commit", "unknown", "failed"}
    Calls = {c1, c2}
    CallFor <- TwoExecutions
    Options <- Timed
    FailPolicy <- FailsClosed
    MaxRetries = 0
    Faults = {}
    Slots = {s1, s2}
    Before <- InTurn
    Locals = {FALSE}
SYMMETRY SagaSymmetry
INVARIANTS SuccessIsInForce
CHECK_DEADLOCK FALSE
