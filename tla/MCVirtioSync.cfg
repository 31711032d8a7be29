SPECIFICATION Spec
CONSTANTS
    VIRTQ_SIZE = 4
    INDEX = 8
    PAGE = 64
    HEAP_SIZE = 4000
    FbSize = {0, 100, 3500}
    DEFAULT_FB = 200
    Sector = {1, 2}
    Buffer = {5000}
    EvalSize = {900}
    MaxCalls = 4
INVARIANTS
    TypeOK
    BlocksAreApart
    ArenaIsRestored
    DeviceFindsRequest
PROPERTIES
    ServesTransfers
    CallsReturn
CHECK_DEADLOCK FALSE
