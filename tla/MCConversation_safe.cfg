CONSTANTS
    Comments = {1, 2, 3}
    MaxId = 3
    Closes = {2}
    Stops = {3}
    Workers = {w1, w2}
    Server = server
    Nobody = Nobody
    Endings = {"completed", "stopped", "failed", "review"}
    Mortals = {w1, w2, server}
    Refuses = TRUE
    StepsFail = TRUE
    MaxFaults = 1

SPECIFICATION Spec
INVARIANTS
    AtMostOnce
    RunnerHasClaim
PROPERTIES
    PastForever
    RetiredNeverRun
SYMMETRY WorkersAlike
CHECK_DEADLOCK FALSE
