CONSTANTS
    NumClusters = 3
    a = a
    b = b
    c = c
    Names = {a, b, c}
    SectorOf <- MCSectorOf
    NoSector = NoSector
    NoName = NoName
SPECIFICATION Spec
CONSTRAINT Undamaged
SYMMETRY SameSector
INVARIANTS
    DiskConsistent
    WritesOwnChain
PROPERTIES
    ClosedIsOnDisk
    FilesKept
