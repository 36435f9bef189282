SPECIFICATION FairSpec
CONSTANTS
    Disks = {d1, d2}
    NoDisk = NoDisk
    Tries = 2
    Chunks = 2
    Clients = {c1}
    Nobody = Nobody
PROPERTY
    ReplugResumes
