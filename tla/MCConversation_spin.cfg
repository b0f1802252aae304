CONSTANTS
    Comments = {1, 2, 3}
    MaxId = 3
    Closes = {}
    Stops = {2}
    Workers = {w1, w2}
    Server = server
    Nobody = Nobody
    Endings = {"completed", "review"}
    Mortals = {}
    Refuses = FALSE
    StepsFail = FALSE
    MaxFaults = 0

SPECIFICATION FairSpec
PROPERTIES
    WorkersRest
CHECK_DEADLOCK FALSE
