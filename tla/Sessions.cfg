CONSTANTS
    Procs = {p1, p2}
    MaxSessions = 3
    MaxPasswords = 1
    MaxRequests = 5
    Tickets = {b1}
    Tokens = {k1, k2}
SPECIFICATION Spec
SYMMETRY MC_Symmetry
CHECK_DEADLOCK FALSE
INVARIANTS
    TypeOK
    RevokedIsFinal
    TicketOnce
    SessionsAreCurrent
    OneResetLink
