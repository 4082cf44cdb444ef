SPECIFICATION Spec
CONSTANTS
    P = P  Q = Q  p1 = p1  p2 = p2  q1 = q1  q2 = q2
    Procs = {P, Q}
    Threads = {p1, p2, q1, q2}
    Home <- TwoAndTwo
    NoOne = NoOne
    Orderly = TRUE
    MaxCalls = 2
    MaxDeletes = 0
    MaxKills = 1
SYMMETRY SameProcess
INVARIANT NobodyWaitsInVain
CHECK_DEADLOCK FALSE
