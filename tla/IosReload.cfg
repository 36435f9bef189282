SPECIFICATION Spec
CONSTANTS
    Images = {a, b, d}
    NoImage = NoImage
    Unsure = Unsure
    Dual = {}
    GameCube = {}
    Disc = d
    Devices = {1}
    Dvd5Length = 1
    Dvd9Length = 4
    LayerProbe = 1
    MaxOffset = 0
    Folders = {n1}
    NoFolder = NoFolder
INVARIANTS
    GameKeepsSetup
    NeverAnotherImage
