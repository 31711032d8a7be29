SPECIFICATION Spec
CONSTANTS
    SECTOR = 3
    FAT_ENTRIES = 7
    DIR_ENTRIES = 2
    max_valid_clusters = 4
    Name = {"a", "b"}
    Byte = {0, 1, 2}
    Data <- MCData
    Image <- MCFormatted
    MaxOps = 3
    MaxFaults = 0
INVARIANT PersistedMeansOnDisk
CHECK_DEADLOCK FALSE
