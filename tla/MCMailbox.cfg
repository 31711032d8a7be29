SPECIFICATION Spec
CONSTANTS
    IPC_QUEUE_SIZE = 4
    MsgType <- MCMsgType
    Payload = {p1, p2}
INVARIANT TypeOK
PROPERTY ImplementsFifo
