SPECIFICATION FairSpec
CONSTANTS
    P = P  Q = Q  p1 = p1  p2 = p2  q1 = q1  q2 = q2
    Procs = {P, Q}
    Threads = {p1, p2, q1}
    Home <- TwoAndOne
    NoOne = NoOne
    Orderly = TRUE
    MaxCalls = 2
    MaxDeletes = 1
    MaxKills = 1
INVARIANTS HolderAlone LinesKept
PROPERTY LogReturns
CHECK_DEADLOCK FALSE
