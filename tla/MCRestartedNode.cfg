\* A node registers again after it was marked offline.
CONSTANTS
    Nodes = {1}
    Tasks = {t1}
    MaxConns = {2}
    ActiveCounts = {0, 2}
    OfflineTimeout = 2
    Second = 2
    MaxTime = 3
    MaxInFlight = 1
    MaxFaults = 0
SPECIFICATION Spec
PROPERTY FirstBeatBeforeOffline
