SPECIFICATION Spec
CONSTANTS
    QUEUE_SIZE = 2
    NET_INDEX = 4
    BUFFER_SIZE = 3
    Packet <- MCPacket
    MaxPackets = 4
    Name <- MCName
    IrNode <- MCIrNode
    Program <- MCProgram
    HALF = 2048
    HALF32 = 4
    MAX_DEPTH = 13
    MaxExecutions = 1
INVARIANTS
    TypeOK
    RxBuffersHaveOneOwner
    PolledInOrderOfArrival
    ResultIsMeaning
PROPERTIES
    EvaluationAdvances
    EvaluationEnds
CHECK_DEADLOCK FALSE
