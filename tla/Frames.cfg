\* Three messages; a buffer just as long as the longest of them.
SPECIFICATION Spec
CONSTANTS
    Others = {"t", "u"}
    Strays <- MCStrays
    Messages <- MCMessages
    Noises <- MCNoises
    MaxMessages = 3
    MaxChunk = 4
    Limit = 10
INVARIANTS
    TypeOK
    InOrder
    NothingHeldBack
    WithinOneMessage
CHECK_DEADLOCK FALSE
