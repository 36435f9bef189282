SPECIFICATION Spec
CONSTANTS
    Clients = {game, es}
    Authorized = {es}
    Handles = {h1, h2, h3}
    Folders = {n1}
    NoFolder = NoFolder
    MaxFatFd = 3
INVARIANTS
    HashIsReal
