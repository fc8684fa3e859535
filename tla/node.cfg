\* Startup with every failure, then every write and every request.
CONSTANTS
    MaxPending = 2
    Null = Null
    Default = Default
    cold = cold
    warm = warm
    Readings <- MCReadings
    ClusterIds <- MCClusterIds
    Ids <- MCIds
SPECIFICATION NodeSpec
INVARIANTS
    NoAssertFires
    OnlyReadyIsWritten
    EachHoldsItsValue
    RepliedOnce
    AcceptedIsServed
    Protected
PROPERTY SensorNeverBlocksMatter
CHECK_DEADLOCK FALSE
