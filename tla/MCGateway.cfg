\* Three clients for two permits.
CONSTANTS
    Clients = {c1, c2, c3}
    max_connections = 2
    Deadline = 2
SPECIFICATION FairSpec
INVARIANT CeilingHolds
PROPERTIES DrainWaits EveryoneIsServed ShutdownCompletes
\* The gateway exits for good.
CHECK_DEADLOCK FALSE
