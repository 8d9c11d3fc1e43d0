\* Three connections for two permits.
CONSTANTS
    Conns = {c1, c2, c3}
    max_connections = 2
    Deadline = 2
SPECIFICATION FairSpec
INVARIANTS TypeOK ReportedLoadFits
PROPERTIES DrainSparesCounted EveryoneIsServed ShutdownCompletes
\* The agent exits for good.
CHECK_DEADLOCK FALSE
