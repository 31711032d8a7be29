SPECIFICATION Spec
CONSTANTS
    QUEUE_SIZE = 2
    NET_INDEX = 4
    BUFFER_SIZE = 3
    Packet = {}
    MaxPackets = 0
    Name <- MCName
    IrNode <- MCIrNode
    Program <- Spin
    HALF = 2048
    HALF32 = 4
    MAX_DEPTH = 40
    MaxExecutions = 1
INVARIANT RecursionKeepsTheStack
CHECK_DEADLOCK FALSE
