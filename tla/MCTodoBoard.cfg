CONSTANTS
    c1 = c1
    c2 = c2
    a1 = a1
    Card = {c1, c2}
    Test = {c2}
    Agent = {a1}
    NoAgent = NoAgent
    Start <- Starts
    Wanted = {"working", "done"}
    Shown = {"gone", "idle"}
    MaxEvents = 1
    MaxEdits = 2
    MaxReports = 2
    MaxFaults = 1
SPECIFICATION FairSpec
INVARIANTS TypeOK DoneIsProven OneCardPerOwner
PROPERTIES ObservesItsOwner AlarmIsDelivered
CHECK_DEADLOCK FALSE
