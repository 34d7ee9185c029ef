CONSTANTS
    expiry = expiry
    paid = paid
    forged = forged
    o1 = o1
    Notes = {expiry, paid}
    Forged = {forged}
    Orders = {o1}
    OrderOf <- MC_OrderOf
    Asks <- MC_Asks
    Attempts = 2
    Concurrency = 2
    Faults = {"enqueue", "transition", "worker"}
    MaxDeliveries = 2
    MaxReplays = 0
SPECIFICATION Spec
INVARIANTS
    TypeOK
    PaidIsBooked
