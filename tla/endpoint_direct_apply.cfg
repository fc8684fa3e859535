\* What the adapter's comment says of where attributes are written.
CONSTANTS
    Channels = {"co2"}
    Values = {780, 820}
    Unavailable = Unavailable
    ChangeThreshold <- MCChangeThreshold
    PollInterval = 1
    NotifyInterval = 2
    FailureThreshold = 2
    BackoffSteps <- MCBackoffSteps
    CounterModulus = 4
    Horizon = 2
    Parts <- NackingPart
    QueueLimit = 2
SPECIFICATION EndpointSpec
PROPERTY AppliedByWorkItemOnly
