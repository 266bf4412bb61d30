\* The life of one job: launch, kill, crash, job_output beside it, and Unapply.
CONSTANTS
    Jobs = {j1}
    Servers = {s1}
    Clients = {c1}
    Listers = {}
    Unappliers = {u1}
    MaxRunning = 1
    MaxCrashes = 1
    MaxGeneration = 1
    Timely = TRUE
    None = None
SPECIFICATION FairSpec
INVARIANTS
    ExitRecordMeansTreeGone
    UnapplyEndsJobs
PROPERTIES
    EndedStaysEnded
    JobsSettle
CHECK_DEADLOCK FALSE
