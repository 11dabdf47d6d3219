CONSTANTS
    e1 = e1
    e2 = e2
    r1 = r1
    r2 = r2
    NoReq = NoReq
    Exec = {e1}
    Req = {r1}
    Supervised = TRUE
    MaxRoute = 1
    MaxCrashes = 0
    MaxDeaths = 1
    MaxWindows = 2
SPECIFICATION LiveSpec
PROPERTY StoppedIsSettled
CHECK_DEADLOCK FALSE
