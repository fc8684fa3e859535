\* The promise of recovery against a sensor that NACKs a start while measuring.
CONSTANTS
    co2 = co2
    Channels = {co2}
    Values = {0}
    Unavailable = Unavailable
    ChangeThreshold <- MCChangeThreshold
    PollInterval = 1
    NotifyInterval = 2
    FailureThreshold = 2
    BackoffSteps <- MCBackoffSteps
    CounterModulus = 5
    Horizon = 3
    Parts <- NackingPart
SPECIFICATION FairSpec
PROPERTY Recovery
