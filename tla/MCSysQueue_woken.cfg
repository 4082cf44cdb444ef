SPECIFICATION Spec
CONSTANTS
    n1 = n1  n2 = n2  n3 = n3  p1 = p1  p2 = p2  c1 = c1  c2 = c2
    Nodes = {n1, n2, n3}
    Producers = {p1, p2}
    Consumers = {c1}
    Drainers = {}
    FreeHead = FreeHead
    UsedHead = UsedHead
    Null = Null
    SemMax = 3
INVARIANT WokenForAPacket
