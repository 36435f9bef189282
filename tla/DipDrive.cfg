SPECIFICATION DipSpec
CONSTANTS
    Images = {single, dual, cube}
    NoImage = NoImage
    Unsure = Unsure
    Dual = {dual}
    GameCube = {cube}
    Disc = single
    Devices = {1}
    Dvd5Length = 1
    Dvd9Length = 4
    LayerProbe = 1
    MaxOffset = 1
INVARIANTS
    ModeHasImage
    DiscIsReachable
PROPERTIES
    TitleKeepsDrive
