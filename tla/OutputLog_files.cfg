\* One job's log from the first unit to the exit record, with a failing write,
\* a dying supervisor and a dashboard that reads beside it.
SPECIFICATION FairSpec
CONSTANTS
    Readers = {r1}
    ByteLimit = 12
    FlushBytes = 3
    MaxRecovery = 4
    Encodings = {"bytes", "wide"}
    Chunks <- PlainChunks
    Ragged = TRUE
    MaxFaults = 1
    Crashes = TRUE
    None = None
INVARIANTS
    HardLimit
    ReadersAgree
    NoticesAreTrue
PROPERTIES
    TailIsFinal
    OutputSettles
