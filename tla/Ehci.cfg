SPECIFICATION MCFairSpec
CONSTANTS
    Disks = {d1, d2}
    NoDisk = NoDisk
    Tries = 2
    Chunks = 2
    Clients = {c1}
    Nobody = Nobody
    PageBytes = 4
    QtdPages = 5
    EHCI_MAX_QTD = 8
    MaxPacket = 2
    CtrlPacket = 2
    DescLength = 3
    BulkLengths = {0, 7, 20, 37, 63}
    Alignments = {0, 1, 3}
    DescTries = 2
    MaxMishaps = 2
INVARIANTS
    OnlyHomeDisk
    RequestIsWhole
    WatchdogAlive
    ChainIsTransfer
    TransferIsOwn
PROPERTIES
    RequestEnds
    PortInitEnds
