CONSTANTS
    op1 = op1
    Op = {op1}
    Agents = {"Boss"}
    RecoveryMax = 1
    BootstrapMax = 1
    MaxCommands = 1
    MaxDeaths = 1
    MaxSessions = 1
    MaxWindows = 2
SPECIFICATION Spec
INVARIANT DeliberateStopHolds
