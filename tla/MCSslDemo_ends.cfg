SPECIFICATION Spec
CONSTANTS
    c1 = c1  c2 = c2  c3 = c3
    Clients = {c1, c2}
    NoOne = NoOne
    LISTNNUM = 1
    CountMod = 2
    MaxCuts = 0
PROPERTY ServerStays
CHECK_DEADLOCK FALSE
