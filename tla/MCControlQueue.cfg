CONSTANTS
    t1 = t1
    t2 = t2
    c1 = c1
    c2 = c2
    Task = {t1, t2}
    Client = {c1, c2}
    Target <- TwoHosts
    TerminalLimit = 1
    MaxAttempt = 2
    MaxFaults = 2
SPECIFICATION FairSpec
INVARIANTS TypeOK RecordsAreTrue
PROPERTIES ImplementsLedger QueuedIsHandedOut
CHECK_DEADLOCK FALSE
