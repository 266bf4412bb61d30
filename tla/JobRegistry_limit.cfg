\* Two servers race for one running job while a lister scans without a lock.
CONSTANTS
    Jobs = {j1, j2}
    Servers = {s1, s2}
    Clients = {}
    Listers = {l1}
    Unappliers = {}
    MaxRunning = 1
    MaxCrashes = 1
    MaxGeneration = 0
    Timely = TRUE
    None = None
SPECIFICATION Spec
SYMMETRY Symmetry
INVARIANT LimitHolds
CHECK_DEADLOCK FALSE
