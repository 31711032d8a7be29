SPECIFICATION Spec
CONSTANTS
    VIRTQ_SIZE = 256
    INDEX = 65536
    PAGE = 4096
    HEAP_SIZE = 4194304
    FbSize = {4194304}
    DEFAULT_FB = 4096000
    Sector = {1}
    Buffer = {5000000}
    EvalSize = {1}
    MaxCalls = 0
INVARIANT LargeFramebufferFits
CHECK_DEADLOCK FALSE
