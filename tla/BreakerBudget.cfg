SPECIFICATION Spec
CONSTANTS
    n1 = n1
    n2 = n2
    j1 = j1
    anon = anon
    r1 = r1
    r2 = r2
    Keys = {j1, anon}
    Anonymous = anon
    Runners = {n1, n2}
    KeyOf <- JobAndAnonymous
    Requests = {r1, r2}
    Budget = 3
    LoopAttempt = 2
    TTL = 2
    Cooldown = 3
    MaxRetries = 0
    MaxCalls <- FourAndOne
    StreakIds = {1, 2, 3}
    Faults = {"database", "restart", "analysis"}
SYMMETRY BreakerSymmetry
INVARIANTS BreakerTypeOK BlocksEnd
PROPERTIES BudgetIsKept
CHECK_DEADLOCK FALSE
