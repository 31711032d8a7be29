SPECIFICATION Spec
CONSTANTS
    VIRTQ_SIZE = 2
    INDEX = 4
    Event <- MCEvent
INVARIANTS
    TypeOK
    BuffersHaveOneOwner
    CharactersAsTyped
PROPERTY DeviceGetsBuffers
\* Without the shell's polls, a keyboard that has filled its buffers waits for ever.
CHECK_DEADLOCK FALSE
