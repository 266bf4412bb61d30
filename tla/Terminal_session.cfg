\* One session of the terminal of version 2, over whatever the cache holds.
CONSTANTS
    Startup = startup
    Page = page
    Checkers = {startup, page}
    Version = 2
    Newest = 3
    MaxChecks = 1
    MaxTrouble = 1
    Jobs = {1, 2}
    Preferences = {0, 1}
SPECIFICATION FairTerminalSpec
INVARIANTS
    WhatIsShownIsTrue
PROPERTIES
    CommitsWhatWasShown
    BlockingScreensEnd
CHECK_DEADLOCK FALSE
