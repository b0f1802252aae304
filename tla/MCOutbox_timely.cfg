CONSTANTS
    notice = notice
    plan = plan
    review = review
    scheduler = scheduler
    worker = worker
    pr = pr
    Keys <- TrioKeys
    PRof <- TrioPRof
    Purpose <- TrioPurpose
    AlwaysLookup = {review}
    Senders = {scheduler, worker}
    Scheduler = scheduler
    NoKey = NoKey
    Timely = TRUE
    MaxFaults = 2

SPECIFICATION FairSpec
INVARIANTS
    NoDuplicate
    OneAttemptPerPR
PROPERTIES
    ImplementsDelivery
    EventuallySettled
CHECK_DEADLOCK FALSE
