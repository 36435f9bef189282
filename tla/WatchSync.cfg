SPECIFICATION FairSpec
CONSTANTS
    Addrs = {"a", "b", "c"}
    MaxWatch = 2
    MaxRounds = 1
    Attempts = 3
    SeqModulus = 4
    Scenarios <- MCScenarios
INVARIANTS
    VerifiedMeansAligned
    AnswerMatchesQuery
PROPERTY
    SyncRecurs
