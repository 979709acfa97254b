SPECIFICATION LedgerSpec
CONSTANTS
    e1 = e1
    e2 = e2
    h1 = h1
    h2 = h2
    f1 = f1
    j1 = j1
    j2 = j2
    Execs = {e1, e2}
    Fps = {f1}
    Handlers = {h1, h2}
    Jobs = {j1, j2}
    JobOf <- EachItsOwnJob
    Endpoints = {"begin", "verify", "commit", "unknown", "failed"}
SYMMETRY LedgerSymmetry
INVARIANTS LedgerTypeOK OneExecuting GrantIsRecorded
PROPERTIES ClaimIsTakenOnce
