\* The attributes against the service, the event queue and the boot order.
CONSTANTS
    Channels = {"co2"}
    Values = {780, 820, 860}
    Unavailable = Unavailable
    ChangeThreshold <- MCChangeThreshold
    PollInterval = 1
    NotifyInterval = 2
    FailureThreshold = 2
    BackoffSteps <- MCBackoffSteps
    CounterModulus = 4
    Horizon = 2
    Parts <- NackingPart
    QueueLimit = 2
SPECIFICATION EndpointSpec
INVARIANTS EndpointTypeOK AttributesCurrent
