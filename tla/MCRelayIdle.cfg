\* A relay that makes progress until its timeout.
CONSTANTS
    idle_timeout = 4
    MaxBytes = 2
SPECIFICATION Spec
INVARIANT TornDownOnlyWhenIdle
\* The relay returns for good.
CHECK_DEADLOCK FALSE
