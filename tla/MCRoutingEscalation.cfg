CONSTANTS
    e1 = e1
    e2 = e2
    r1 = r1
    r2 = r2
    NoReq = NoReq
    Exec = {e1, e2}
    Req = {r1}
    Supervised = TRUE
    MaxRoute = 1
    MaxCrashes = 1
    MaxDeaths = 0
    MaxWindows = 2
SPECIFICATION Spec
INVARIANTS TypeOK LockedAndRecorded OneContinuation
PROPERTY SettledRunsItsRuntime
SYMMETRY Symmetry
CHECK_DEADLOCK FALSE
