SPECIFICATION FairSpec
CONSTANTS
    Letters <- TwoLetters
    Mails = {m1}
    Lifecycle <- First
    Artifacts = 1
    MaxFaults = 1
    MaxHelp = 1
INVARIANTS AwakeOrArmed StopsCleanly
PROPERTIES DueIsHandled NeverSpins FinalizedAtLast
CHECK_DEADLOCK FALSE
