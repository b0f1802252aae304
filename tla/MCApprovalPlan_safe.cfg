CONSTANTS
    MaxPlans = 2
    MaxId = 5
    MaxSha = 2
    MaxFaults = 2

SPECIFICATION Spec
INVARIANTS
    ApprovalMeantThis
    CompletedIsHonest
PROPERTIES
    PointerForward
    NoReplay
    PushedAsPlanned
