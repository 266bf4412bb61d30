SPECIFICATION Spec
CONSTANTS
    c1 = c1
    c2 = c2
    c3 = c3
    Calls = {c1, c2, c3}
    Offers <- OfferOf
    Jobs = {j1}
    NoJob = nojob
    Capacity = 2
    TokenBudget = 2
    HardLimit = 3
    StubTokens = 1
    MaxLines = 2
    MaxTrouble = 1
    Lanes <- LaneOf
INVARIANTS
    BurstStaysInside
    RunningJobsStayListed
PROPERTY CursorFollowsPages
