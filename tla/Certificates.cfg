CONSTANTS
    Procs = {t1, t2}
    Births <- MC_Births
    Sheets <- MC_Sheets
    Keys = {k1, k2}
    MaxResults = 2
    MaxRequests = 3
    Desks = {d1, d2}
    MaxAttempts = 2
SPECIFICATION Spec
SYMMETRY MC_Symmetry
CHECK_DEADLOCK FALSE
INVARIANTS
    TypeOK
    SharesAddUp
    DigitIsRemainder
    ResultFitsQuestions
    CatalogSound
    OneSelfMade
