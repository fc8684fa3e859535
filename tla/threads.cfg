\* Every failure and power cycle on the bus, every order of the copies.
CONSTANTS
    main = main
    poll = poll
    shell = shell
    chip = chip
    Callers = {main, poll, shell}
    NoCaller = NoCaller
    MaxSample = 2
    ReadyPolls = 2
    writer = poll
    Readers = {shell, chip}
    NoThread = NoThread
    Fields = {"measurement", "ageMs", "everValid"}
    Values = {0, 1}
    empty = 0
SPECIFICATION ThreadsSpec
INVARIANTS
    MutexExact
    OwnResponse
PROPERTIES
    GivesUpForAReason
    Atomic
    NeverTorn
    PrintedIsASample
    CallsReturn
    CommandsEnd
