CONSTANTS
    l1 = l1
    l2 = l2
    u1 = u1
    c1 = c1
    c2 = c2
    Launches = {l1, l2}
    Users = {u1}
    Cards = {c1, c2}
    Contract <- TwoCards
    Profiles <- Files
    AllowHttp = FALSE
    ComparisonEnabled = TRUE
    MaxAssessments = 1
    MaxSwitches = 1
    MaxDeaths = 1
SPECIFICATION Spec
INVARIANTS TypeOK NoSharedSession ClaimsAreEarned ReceiptsBelongTogether 
SYMMETRY Symmetry
CHECK_DEADLOCK FALSE
