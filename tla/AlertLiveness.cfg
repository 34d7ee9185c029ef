CONSTANTS
    expiry = expiry
    paid = paid
    forged = forged
    o1 = o1
    Notes = {paid}
    Forged = {}
    Orders = {o1}
    OrderOf <- MC_OrderOf
    Asks <- MC_Asks
    Attempts = 3
    Concurrency = 1
    Faults = {"transition"}
    MaxDeliveries = 1
    MaxReplays = 1
    AlertAfter = 2
SPECIFICATION AlertFairSpec
INVARIANTS
    AlertTypeOK
PROPERTIES
    
    EveryNoteConcluded
