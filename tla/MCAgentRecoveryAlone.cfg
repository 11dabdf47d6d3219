CONSTANTS
    op1 = op1
    Op = {}
    Agents = {"worker", "Boss"}
    RecoveryMax = 3
    BootstrapMax = 2
    MaxCommands = 0
    MaxDeaths = 4
    MaxSessions = 3
    MaxWindows = 2
SPECIFICATION LiveSpec
INVARIANT TypeOK
PROPERTIES RecoveryIsExact LostIsHandled
