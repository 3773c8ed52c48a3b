CONSTANTS
    Instances = {i1, i2}
    Requests = {q1, q2}
    MaxConns = 1
    Migrations = 2
    Statements = 2
    ShutdownTimeout = 2
    KillAfters <- MCKillAfters
    MaxStops = 2
    None = None
SPECIFICATION Spec
INVARIANTS
    Inv
    ServesOnMigratedSchema
PROPERTIES
    CutOnlyAfterGrace
    RequestsSettle
    EventuallyServes
