\* What the documentation says of the heartbeat.
CONSTANTS
    co2 = co2
    Channels = {co2}
    Values = {0}
    Unavailable = Unavailable
    ChangeThreshold <- MCChangeThreshold
    PollInterval = 1
    NotifyInterval = 2
    FailureThreshold = 2
    BackoffSteps <- MCBackoffSteps
    CounterModulus = 5
    Horizon = 4
    Parts <- NackingPart
SPECIFICATION Spec
INVARIANT HeartbeatAlways
