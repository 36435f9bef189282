SPECIFICATION FairSpec
CONSTANTS
    Addrs = {"a"}
    MaxWatch = 1
    MaxRounds = 2
    Attempts = 3
    SeqModulus = 4
    Scenarios <- LateOnly
PROPERTY
    FailedResyncRetriggers
