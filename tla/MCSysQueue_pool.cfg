SPECIFICATION FairSpec
CONSTANTS
    n1 = n1  n2 = n2  n3 = n3  p1 = p1  p2 = p2  c1 = c1  c2 = c2
    Nodes = {n1, n2, n3}
    Producers = {p1, p2}
    Consumers = {c1, c2}
    Drainers = {c2}
    FreeHead = FreeHead
    UsedHead = UsedHead
    Null = Null
    SemMax = 3
INVARIANTS RingsClosed NodesConserved NoLostWakeup
PROPERTIES PoolSpec PacketsPopped NodesRecycled
