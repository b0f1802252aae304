SPECIFICATION Spec
CONSTANTS
    c1 = c1
    c2 = c2
    Absent = Absent
    NoView = NoView
    Clients <- TwoClients
    Editable <- SomeSlugs
    MaxWrites = 2
INVARIANTS
    BindingsHold
    MigratedInstallsResolve
PROPERTIES
    MaintenanceRespectsOperator
    NoLostUpdate
SYMMETRY Alike
CHECK_DEADLOCK FALSE
