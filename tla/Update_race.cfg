SPECIFICATION Spec
CONSTANTS
    u1 = u1
    u2 = u2
    Updates = {u1, u2}
    Kinds = {"release", "global", "exec"}
    KindsOf <- MCKindsOf
    Applied = FALSE
    Newest = 3
    None = None
    MaxTrouble = 1
INVARIANTS
    OnlyHealthyVersionsStay
    TerminalIsKept
PROPERTIES
    UpdatesSettle
CHECK_DEADLOCK FALSE
