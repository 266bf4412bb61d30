\* Two commands, a user who edits, a crash and a failing file operation.
CONSTANTS
    Procs = {p1, p2}
    Versions = {1, 2}
    Tiers = {10}
    UserLimits = {5}
    Absent = Absent
    MaxOps = 3
    MaxBeside = 1
    MaxUpsets = 1
SPECIFICATION Spec
SYMMETRY Symmetry
INVARIANTS
    UserTextIsKept
    FailedCommitIsClean
    ReceiptUndoesApply
CHECK_DEADLOCK FALSE
