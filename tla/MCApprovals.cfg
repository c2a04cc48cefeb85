SPECIFICATION FairSpec
CONSTANTS
    Workers = {w1, w2}
    Ids = {i1}
    Strays = {}
    Mems = {m1}
    Exports = {x1}
INVARIANTS
    ActiveMemoryWasApproved
    RowsAreBacked
    QuietMemoryAgrees
PROPERTIES
    TrailLostInCrash
    ApprovalTakesEffect
