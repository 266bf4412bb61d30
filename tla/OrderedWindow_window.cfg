\* One request fills a window of three slots; leaves may outlive a retirement.
SPECIFICATION Spec
CONSTANTS
    q1 = q1
    q2 = q2
    r1 = r1
    r2 = r2
    r3 = r3
    Requests <- OneRequest
    Runners <- ThreeRunners
    P = 3
    Count <- FourItems
    GenLimit = 2
    NoRequest = NoRequest
SYMMETRY Symmetric
INVARIANTS
    SlotsAreOwned
    SlotsInWindow
PROPERTIES
    InOrderDelivery
CHECK_DEADLOCK FALSE
