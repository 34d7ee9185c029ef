CONSTANTS
    Procs = {p1, p2}
    MaxRows = 2
    MaxEarned = 2
    MaxReviews = 2
    MinimumWithdraw = 2
SPECIFICATION Spec
SYMMETRY MC_Symmetry
CHECK_DEADLOCK FALSE
INVARIANTS
    TypeOK
    WalletCovers
    ReleasedIsUnpaid
    MoneyOutIsEarned
