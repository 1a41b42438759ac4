SPECIFICATION FairSpec
CONSTANTS
    c1 = c1
    c2 = c2
    u1 = u1
    u2 = u2
    None = None
    Clients = {c1, c2}
    Urls = {u1}
    Codes = {5, 6}
    Ttl = 2
    MaxData = 2
    MaxDeploys = 1
INVARIANTS
    AgeIsBounded
    OldCodeIsBounded
PROPERTIES
    CachesConverge
    SwitchedOffDrains
