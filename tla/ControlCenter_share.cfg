\* Two proxies and two host processes, of which one may be late or crash.
CONSTANTS
    Proxies = {p1, p2}
    Hosts = {h1, h2}
    None = None
SPECIFICATION FairSpec
INVARIANTS
    OneControlCenter
    LiveSessionsSurviveIdle
PROPERTIES
    ShutdownIsQuiet
    CentersComeAndGo
CHECK_DEADLOCK FALSE
