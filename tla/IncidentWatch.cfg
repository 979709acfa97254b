SPECIFICATION FairSpec
CONSTANTS
    m1 = m1
    m2 = m2
    b1 = b1
    p1 = p1
    i1 = i1
    i2 = i2
    i3 = i3
    Monitors = {m1, m2}
    Beats = {b1}
    Passes = {p1}
    Incidents = {i1, i2, i3}
    Faults = {"database", "restart"}
INVARIANTS IncidentTypeOK SuccessEndsIncidents DuplicatesAreBounded
PROPERTIES MissedIsNoticed
CHECK_DEADLOCK FALSE
