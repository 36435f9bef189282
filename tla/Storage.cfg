SPECIFICATION FairSpec
CONSTANTS
    MaxIdx = 4
    IdxChunk = 2
    SectorWords = 2
    WordBytes = 2
    FragLists <- MCFragLists
    Reads <- MCReads
    Damages <- MCDamages
    DiscIds = {"A", "B", "C"}
    HdWords = 2
    HdWordBytes = 2
    BlockSectors = 2
    DiscBlocks = 3
    Volumes <- MCVolumes
    Modules = {fat, ehci}
    Server = ehci
    Cards = {hc, lc}
    HighCap = {hc}
    NoCard = NoCard
    Rcas = {1, 2}
    Sectors = {1}
    PageSize = 2
    Wrap = 16
    SdTries = 2
    MaxInserts = 1
    Models = {mx, my}
    NoModel = NoModel
    UsbClients = {c1}
    NoClient = NoClient
    CycleTries = 2
    Pieces = 2
    Parts = 2
    QueueSize = 4
    MaxAttached = 2
INVARIANTS
    ReadsTheImage
    ReadsTheDisc
    SectorIsRight
    HandlesBalanced
    PiecesAreWhole
PROPERTIES
    ListCatchesUp
    CallsEnd
