CONSTANTS
    i1 = i1
    i2 = i2
    c1 = c1
    b1 = b1
    h1 = h1
    NoId = NoId
    NoCommit = NoCommit
    Id = {i1, i2}
    Commit = {c1}
    Asked = {"draft_pr", "pr_merge_when_green"}
    Boss = {b1}
    Host = {h1}
    MaxKills = 1
SPECIFICATION Spec
INVARIANTS TypeOK SingleUse DecisionsHold RecordsAreTrue
SYMMETRY Symmetry
CHECK_DEADLOCK FALSE
