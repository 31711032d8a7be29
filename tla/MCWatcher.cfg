SPECIFICATION Spec
CONSTANTS
    WATCHER_HISTORY_MAX = 3
    SECTOR = 6
    TextLength <- MCTextLength
    MaxEvents = 6
    MaxBoots = 1
    MaxFaults = 2
INVARIANTS
    TypeOK
    DumpIsLatestEvents
    RingShape
    LedgerInOrderWithoutDuplicates
    CompleteSyncCoversRing
    UpToDateBeforeWrap
PROPERTIES
    WedgedUntilBoot
    SyncEnds
