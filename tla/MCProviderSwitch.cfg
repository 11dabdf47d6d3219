CONSTANTS
    a1 = a1
    a2 = a2
    p1 = p1
    p2 = p2
    s1 = s1
    Free = Free
    All = All
    Inherit = Inherit
    Agent = {a1, a2}
    Profile = {p1, p2}
    FirstProfile = p1
    Own = {a2}
    Switch = {s1}
    Requests <- MCRequests
    MaxEvents = 1
    MaxWindows = 2
SPECIFICATION LiveSpec
INVARIANTS TypeOK WorksUnderLock
PROPERTIES SwitchIsWhole SwitchEnds
CHECK_DEADLOCK FALSE
