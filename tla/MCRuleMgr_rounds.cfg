SPECIFICATION Spec
CONSTANTS
    ctl = ctl   app = app   cls = cls
    e1 = e1     e2 = e2     e3 = e3
    Threads = {ctl, app}
    DispatchThreads = {}
    MayIssue <- MixNoClear
    Entries = {e1, e2, e3}
    Null = Null
    IPs <- MCIPs
    Ports <- MCPorts
    SrcPorts = {0}
    PortRanges = {}
    MaxPort = 7
    NumsMod = 3
PROPERTY AbsentGoesRound
