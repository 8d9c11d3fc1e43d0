\* One handler or sweep at a time, two nodes, one failure.
CONSTANTS
    Nodes = {1, 2}
    Tasks = {t1}
    MaxConns = {1, 3}
    ActiveCounts = {0, 2}
    OfflineTimeout = 2
    Second = 2
    MaxTime = 3
    MaxInFlight = 1
    MaxFaults = 1
SPECIFICATION Spec
INVARIANT GaugeFollows
PROPERTIES HeartbeatClassifies 
