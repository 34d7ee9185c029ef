CONSTANTS
    t1 = t1
    t2 = t2
    Procs = {t1, t2}
    Cron = cron
    MaxOrders = 2
    MaxEvents = 2
    Take = 1
SPECIFICATION FairSpec
INVARIANTS
    TypeOK
    OneOpenOrder
PROPERTIES
    PaidStaysPaid
    PaymentIsNoticed
