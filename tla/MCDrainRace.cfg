\* A heartbeat handler overlaps a drain.
CONSTANTS
    Nodes = {1}
    Tasks = {t1, t2}
    MaxConns = {2}
    ActiveCounts = {0, 2}
    OfflineTimeout = 2
    Second = 2
    MaxTime = 1
    MaxInFlight = 2
    MaxFaults = 0
SPECIFICATION Spec
SYMMETRY TaskSymmetry
PROPERTY DrainingStaysDraining
