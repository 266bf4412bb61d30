SPECIFICATION Spec
INVARIANTS
    UpdatesCanBeInstalled
    NothingIsLost
    AnswersAreTrue
    FilesAreFound
    TextIsKept
    ControlIsTrue
CHECK_DEADLOCK FALSE
