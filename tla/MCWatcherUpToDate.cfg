SPECIFICATION Spec
CONSTANTS
    WATCHER_HISTORY_MAX = 3
    SECTOR = 6
    TextLength <- MCTextLength
    MaxEvents = 4
    MaxBoots = 0
    MaxFaults = 2
INVARIANT UpToDateMeansSynced
CHECK_DEADLOCK FALSE
