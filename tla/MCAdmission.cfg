\* Three callers on two nodes whose rows change once under their feet.
CONSTANTS
    Conns = {c1, c2, c3}
    Allocators = {1, 2}
    Rates = {0, 1, 2, 3, 4, 5, 6, 7}
    Limits = {1, 2, 5, 7}
    MaxU64 = 7
    Rows <- SomeRows
    MaxUpdates = 1
SPECIFICATION AdmissionSpec
SYMMETRY ConnSymmetry
INVARIANTS AdmissionTypeOK CounterIsSum NeverOverCommitted NoDominatedChoice
PROPERTIES ImplementsReservations RefusalMeansFull
