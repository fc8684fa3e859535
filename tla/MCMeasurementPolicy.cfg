\* The policy object alone, under every caller.
CONSTANTS
    co2 = co2
    pm = pm
    Channels = {co2, pm}
    Values = {0, 1, 2}
    Unavailable = Unavailable
    ChangeThreshold <- MCChangeThreshold
    PollInterval = 1
    NotifyInterval = 2
    FailureThreshold = 2
    BackoffSteps <- MCBackoffSteps
    CounterModulus = 6
    Horizon = 3
SPECIFICATION PolicySpec
INVARIANTS PolicyTypeOK BackoffLadder NotifyNeverRefused
PROPERTY ImplementsFaultLadder
