CONSTANTS
    op1 = op1
    Op = {op1}
    Agents = {"worker"}
    RecoveryMax = 1
    BootstrapMax = 1
    MaxCommands = 2
    MaxDeaths = 1
    MaxSessions = 1
    MaxWindows = 3
SPECIFICATION Spec
INVARIANT DeliberateStopHolds
PROPERTY StoppedStaysStopped
