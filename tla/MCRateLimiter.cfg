\* A bucket of five tokens, two per tick; six can never be had at once.
CONSTANTS
    Rate = 2
    Capacity = 5
    Requests = {0, 1, 3, 5, 6}
    MaxTime = 8
SPECIFICATION FairSpec
INVARIANTS TypeOK WindowBound
PROPERTIES SleepsOnce AcquireReturns
