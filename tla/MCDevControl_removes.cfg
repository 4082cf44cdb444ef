SPECIFICATION Spec
CONSTANTS
    p1 = p1  p2 = p2
    Procs = {p1, p2}
    MayIssue <- OneManager
    Careful = TRUE
    Entries = {"e1", "e2"}
    Addresses = {0, 1}
    Ports = {3}
    PortMod = 2
    Proxies <- MCProxies
    Ranges <- MCRanges
    MaxPort = 7
INVARIANT EveryRemoveCanEnd
