CONSTANTS
    Comments = {1, 2}
    MaxId = 3
    Closes = {1}
    Stops = {}
    Workers = {w1, w2}
    Server = server
    Nobody = Nobody
    Endings = {"completed"}
    Mortals = {w1, w2, server}
    Refuses = FALSE
    StepsFail = FALSE
    MaxFaults = 2

SPECIFICATION FairSpec
PROPERTIES
    InboundSettles
    CloseCompletes
CHECK_DEADLOCK FALSE
