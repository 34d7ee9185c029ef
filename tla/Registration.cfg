CONSTANTS
    Procs = {p1, p2}
    Applicants = {e1, e2}
    MaxRows = 3
    MaxAttempts = 2
    MaxLimit = 2
    MaxRequests = 6
SPECIFICATION Spec
SYMMETRY MC_Symmetry
CHECK_DEADLOCK FALSE
INVARIANTS
    TypeOK
    GuessesAreLimited
    ConfirmedIsProven
    CapacityHolds
