\* Progress with every kind of part.
CONSTANTS
    co2 = co2
    Channels = {co2}
    Values = {0}
    Unavailable = Unavailable
    ChangeThreshold <- MCChangeThreshold
    PollInterval = 1
    NotifyInterval = 2
    FailureThreshold = 2
    BackoffSteps <- MCBackoffSteps
    CounterModulus = 5
    Horizon = 3
    Parts <- PartKinds
SPECIFICATION FairSpec
PROPERTIES
    PollsForever
    BlockedOnlyByRunningSensor
    RestartedAfterPowerLoss
    RecoveryIfStartAcked
