SPECIFICATION Spec
CONSTANTS
    NClusters = 4
    PerFatSector = 2
    RootSize = 2
    Handles = {h1, h2}
    Dirs <- MCDirs
    Files <- MCFiles
    Tmp <- MCTmp
    Writes <- MCWrites
    MaxSize = 3
    MaxFatFd = 2
    isNMH2 = TRUE
    Home0 <- MCHome0
    MaxChanges = 3
INVARIANTS
    VolumeIsSound
    FilesAreKept
    RequestsReachTheirFile
SYMMETRY Symm
CHECK_DEADLOCK FALSE
