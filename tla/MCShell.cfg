SPECIFICATION Spec
CONSTANTS
    Capacity = 2
    CMD_MAX_LEN = 3
    LINE_MAX = 3
    DATA_MAX = 2
    TIMEOUT_MAX = 1
    Request <- MCRequest
    KeyChar <- MCKeyChar
    UartChar <- MCUartChar
    MaxKeys = 2
    MaxUart = 5
INVARIANTS
    TypeOK
    AwaitedResponseIsQueued
    NoStaleResponse
    CapturedTradesAreUnspliced
    TradesKeepHostOrder
PROPERTY EveryRequestIsAnswered
