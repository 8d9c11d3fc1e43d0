\* One agent with two lives and an operator; one failure.
CONSTANTS
    Nodes = {1}
    Tasks = {0, 1}
    MaxConns = {2}
    ActiveCounts = {0, 2}
    OfflineTimeout = 4
    Second = 2
    MaxTime = 6
    MaxInFlight = 3
    MaxFaults = 1
    HeartbeatInterval = 1
    MaxLives = 2
SPECIFICATION ClusterFairSpec
INVARIANTS ClusterTypeOK NoFalseOffline SelectableWasHeard DrainSticks
PROPERTIES SweepIsExact DeadNodeLeaves LiveNodeServes
