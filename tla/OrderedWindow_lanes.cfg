\* A long and a short request compete for the one extra lane.
SPECIFICATION FairSpec
CONSTANTS
    q1 = q1
    q2 = q2
    r1 = r1
    r2 = r2
    r3 = r3
    Requests <- TwoRequests
    Runners <- TwoRunners
    P = 2
    Count <- ThreeAndOne
    GenLimit = 1
    NoRequest = NoRequest
INVARIANTS
    LanesAreShared
PROPERTIES
    RequestsEnd
CHECK_DEADLOCK FALSE
