SPECIFICATION RecoverySpec
CONSTANTS
    e1 = e1
    e2 = e2
    h1 = h1
    f1 = f1
    f2 = f2
    j1 = j1
    c1 = c1
    c2 = c2
    c3 = c3
    p1 = p1
    p2 = p2
    Execs = {e1, e2}
    Fps = {f1, f2}
    Handlers = {h1}
    Jobs = {j1}
    JobOf <- OneJob
    Endpoints = {"begin", "commit", "unknown", "failed"}
    Calls = {c1, c2, c3}
    CallFor <- StepsTwice
    Options <- Untimed
    FailPolicy <- FirstFailsOpen
    MaxRetries = 0
    Faults = {"apiCrash"}
    Workflow = {e1, e2}
    Passes = {p1, p2}
SYMMETRY RecoverySymmetry
INVARIANTS RecoveryTypeOK BlockersAreCleared VerifiedOnGrounds
PROPERTIES DecisionsStand
CHECK_DEADLOCK FALSE
