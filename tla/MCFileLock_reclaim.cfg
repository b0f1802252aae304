CONSTANTS
    webhook = webhook
    pump = pump
    worker = worker
    server = server
    run = run
    cli = cli
    Clients = {webhook, pump, worker}
    Process <- ThreeProcesses
    GateCrashers = {server}
    Nobody = Nobody

SPECIFICATION Spec
INVARIANTS
    MutualExclusion
CHECK_DEADLOCK FALSE
