SPECIFICATION Spec
CONSTANTS
    comm = comm
    scm = scm
    Parts <- TwoParts
    Database = comm
    Optional <- JustSlots
    Unlocked <- JustSlots
    MaxVersion = 3
    MaxFaults = 2
INVARIANTS
    SourceKept
    PublishedComplete
    WorkspacesInPlace
PROPERTIES
    BackupIsConsistent
    RestoreIsAtomic
CHECK_DEADLOCK FALSE
