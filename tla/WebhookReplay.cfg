CONSTANTS
    expiry = expiry
    paid = paid
    forged = forged
    o1 = o1
    Notes = {paid}
    Forged = {}
    Orders = {o1}
    OrderOf <- MC_OrderOf
    Asks <- MC_Asks
    Attempts = 2
    Concurrency = 1
    Faults = {"enqueue", "transition", "bookkeeping", "worker"}
    MaxDeliveries = 2
    MaxReplays = 1
SPECIFICATION FairSpec
INVARIANTS
    PaidIsBooked
PROPERTIES
    JobsEnd
