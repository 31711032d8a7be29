SPECIFICATION Spec
CONSTANTS
    SECTOR = 3
    FAT_ENTRIES = 6
    DIR_ENTRIES = 3
    max_valid_clusters = 4
    Name = {"a", "b"}
    Byte = {0, 1, 2}
    Data <- MCData
    Image <- MCImage
    MaxOps = 3
    MaxFaults = 1
INVARIANTS
    TypeOK
    SectorsKeepTheirKind
    FilesOwnTheirClusters
PROPERTIES
    FilesOnlyGrow
    TextsGoInWhole
    DoneMeansOnDisk
    OperationsAdvance
    OperationsEnd
