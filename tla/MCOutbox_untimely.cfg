CONSTANTS
    notice = notice
    plan = plan
    review = review
    scheduler = scheduler
    worker = worker
    pr = pr
    Keys <- PairKeys
    PRof <- PairPRof
    Purpose <- PairPurpose
    AlwaysLookup = {}
    Senders = {scheduler, worker}
    Scheduler = scheduler
    NoKey = NoKey
    Timely = FALSE
    MaxFaults = 3

SPECIFICATION Spec
INVARIANTS
    InOrder
    DeliveredHasReceipt
PROPERTIES
    SettledStays
CHECK_DEADLOCK FALSE
