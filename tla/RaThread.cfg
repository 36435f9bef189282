SPECIFICATION FairSpec
CONSTANTS
    MaxFrames = 4
    Residue = {0, 7}
    AliveChanges = 4
    InitTries = 2
    IdentifyTries = 2
    Phase = 2
    Pulses = 3
    Fallback = 1
    WatchLists <- MCWatchLists
    ChainTables <- MCChainTables
    Attempts = 2
    MaxAddrs = 4
    MaxNodes = 6
    WatchCap = 4
    ChainCap = 4
CHECK_DEADLOCK FALSE
INVARIANTS
    SilentWithoutGame
    CelebrationIsWhole
    ListsAreAdapters
PROPERTIES
    KeepsFiring
