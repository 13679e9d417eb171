\* Messages that arrive while the session is closed.
SPECIFICATION Spec
CONSTANTS
    Others = {"t", "u"}
    Strays <- MCStrays
    Messages <- MCMessages
    Noises <- MCNoises
    MaxMessages = 2
    MaxChunk = 4
    Limit = 99
INVARIANTS
    OnlyTopLevel
CHECK_DEADLOCK FALSE
