SPECIFICATION Spec
CONSTANTS
    c1 = c1
    c2 = c2
    s1 = s1
    s2 = s2
    Calls = {c1, c2}
    Servers = {s1, s2}
    ServersOf <- MCServersOf
    Names = {a, b}
    Alias = link
    Inodes = {1, 2, 3}
    None = None
    MaxTrouble = 1
INVARIANTS
    BlastRadius
    NoCircularWait
PROPERTIES
    EditsAreSerial
 
CHECK_DEADLOCK FALSE
