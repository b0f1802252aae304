CONSTANTS
    Tasks = {"review", "conflict", "ci", "repair", "custom", "conversation", "stop"}
    RepairBudget = 2
    Retries = 1
    Forks = {TRUE, FALSE}
    MaxRuns = 2
    MaxCommits = 3
    MaxMoves = 1
    MaxCrashes = 1

SPECIFICATION FairSpec
INVARIANTS
    PauseIsReal
    TreesOwned
    StopIsFinal
PROPERTIES
    WorkIsKept
    NeverOverwrites
    RunsEnd
CHECK_DEADLOCK FALSE
