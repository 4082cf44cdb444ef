SPECIFICATION FairSpec
CONSTANTS
    c1 = c1  c2 = c2  c3 = c3
    Clients = {c1, c2, c3}
    NoOne = NoOne
    LISTNNUM = 1
    CountMod = 3
    MaxCuts = 1
INVARIANTS NoneAbandoned OneUnderWay NoStandoff
PROPERTIES CountsFollow ServedOrTold
CHECK_DEADLOCK FALSE
