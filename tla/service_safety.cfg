\* The service beside a failing sensor, the shell and the clock.
CONSTANTS
    co2 = co2
    Channels = {co2}
    Values = {0, 1, 2}
    Unavailable = Unavailable
    ChangeThreshold <- MCChangeThreshold
    PollInterval = 1
    NotifyInterval = 2
    FailureThreshold = 2
    BackoffSteps <- MCBackoffSteps
    CounterModulus = 5
    Horizon = 4
    Parts <- PartKinds
SPECIFICATION Spec
INVARIANTS TypeOK SnapshotConsistent QuietImpliesClose HeartbeatFresh DeliveryKeepsUp
PROPERTY ImplementsPolicy
