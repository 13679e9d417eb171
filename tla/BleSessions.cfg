\* Three tasks want the lock; two frames are awaited per command, and the unit sends
\* up to three, and others by itself.
SPECIFICATION Spec
CONSTANTS
    poll = poll
    write = write
    raw = raw
    Tasks = {poll, write, raw}
    PollCommands = 2
    NumCommands <- MCNumCommands
    Foreign <- MCForeign
    ResponsesPerCommand = 2
    MaxAnswers = 3
    MaxFrames = 4
    Chatty = TRUE
INVARIANTS
    TypeOK
    OneSession
    LinkClosed
    NoLostWakeup
    OkMeansAnswered
PROPERTIES
    CommandsInOrder
    ServesSessions
