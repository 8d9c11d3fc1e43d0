\* A task between its check and its count while run drains.
CONSTANTS
    Conns = {c1}
    max_connections = 1
    Deadline = 2
SPECIFICATION Spec
PROPERTY DrainWaits
\* The agent exits for good.
CHECK_DEADLOCK FALSE
