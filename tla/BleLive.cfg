\* A poll of three commands, a write and a raw command, under fairness; the unit
\* answers each command at most once.
SPECIFICATION FairSpec
CONSTANTS
    poll = poll
    write = write
    raw = raw
    Tasks = {poll, write, raw}
    PollCommands = 3
    NumCommands <- MCNumCommands
    Foreign <- MCForeign
    ResponsesPerCommand = 1
    MaxAnswers = 1
    MaxFrames = 3
    Chatty = FALSE
INVARIANTS
    AnswersMatch
PROPERTIES
    EveryCallReturns
