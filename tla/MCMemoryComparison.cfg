SPECIFICATION Spec
CONSTANTS
    Case = {"exact", "contradiction"}
    Plan <- MCPlan
    Evidence = {"a", "r"}
    Gold <- MCGold
    Resource <- MCResource
    Offered <- MCOffered
    Answers <- MCAnswers
    Caller = {"controller", "operator"}
    Asks <- MCAsks
INVARIANTS TypeOK ArmsAreComparable CleanupIsComplete SuccessIsEarned
