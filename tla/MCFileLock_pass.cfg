CONSTANTS
    webhook = webhook
    pump = pump
    worker = worker
    server = server
    run = run
    cli = cli
    Clients = {webhook, pump, worker}
    Process <- TwoProcesses
    GateCrashers = {server}
    Nobody = Nobody

SPECIFICATION FairSpec
INVARIANTS
    MutualExclusion
PROPERTIES
    DeadDoNotBlock
CHECK_DEADLOCK FALSE
