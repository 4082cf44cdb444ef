SPECIFICATION LifeSpec
CONSTANTS
    n1 = n1  n2 = n2  n3 = n3  p1 = p1  p2 = p2  k1 = k1  k2 = k2
    Nodes = {n1, n2, n3}
    Producers = {p1, p2}
    Consumers = {k1, k2}
    Drainers = {k2}
    FreeHead = FreeHead  UsedHead = UsedHead  Null = Null
    SemMax = 3
    Quiet = FALSE
INVARIANT FreedIsUnused
CHECK_DEADLOCK FALSE
